---- MODULE Spec2Model ----
(***************************************************************************)
(* Model of the cy_serial_bridge host driver (CY7C652xx USB serial bridge) *)
(* Session lifecycle of CySerBridgeBase and its subclasses, and the I2C    *)
(* and SPI transaction handlers of src/src/cy_serial_bridge/driver.py,     *)
(* the mode change of CyMfgrIface with the configuration block of          *)
(* configuration_block.py, and the discovery and open_device of            *)
(* cy_scb_context.py.                                                      *)
(*                                                                         *)
(* Every handler is one action.  The USB calls a handler issues are        *)
(* recorded, in order, in call.usb; what the device and the transport      *)
(* answer is drawn from small sets.                                        *)
(***************************************************************************)
EXTENDS Integers, Sequences, FiniteSets, TLC

\* ------------------------------------------------------------------ bounds
NumDrivers == 3      \* driver objects created on the one CyScbContext
MaxLen == 2          \* longest transfer, in bytes
MaxPolls == 2        \* busy answers the SPI status poll may give in one call

\* ------------------------------------------------- constants of the program
ERROR_BIT == 1
ARBITRATION_ERROR_BIT == 2
NAK_ERROR_BIT == 4
BUS_ERROR_BIT == 8
MAX_VALID_ADDRESS == 127
I2C_MIN_FREQUENCY == 1000
I2C_MAX_FREQUENCY == 400000
SPI_MIN_FREQUENCY == 1000
SPI_MAX_MASTER_FREQUENCY == 3000000
MIN_WORD_SIZE == 4
MAX_WORD_SIZE == 16

\* usb_constants.py:28-29
DEFAULT_VID == 1204
DEFAULT_PID == 57360

\* usb_constants.py:40-62  CyType
CyType_DISABLED == 0
CyType_UART_VENDOR == 1
CyType_SPI == 2
CyType_I2C == 3
CyType_JTAG == 4
CyType_MFG == 5
CyType_UART_CDC == 6
CyType_UART_PHDC == 7
CyTypes == CyType_DISABLED..CyType_UART_PHDC

\* the value None of self._curr_frequency, told apart from every frequency
None == -1
MODE_READ == "R"
MODE_WRITE == "W"
Modes == {MODE_READ, MODE_WRITE}

Drivers == 1..NumDrivers

\* The driver class of each driver object: CyI2CControllerBridge,
\* CySPIControllerBridge, CyMfgrIface, and so on round.
KindOf(d) == CASE d % 3 = 1 -> "I2C" [] d % 3 = 2 -> "SPI" [] OTHER -> "MFG"

HasBit(st, mask) == (st \div mask) % 2 = 1

Count(s, x) == Cardinality({i \in DOMAIN s : s[i] = x})

\* position of the first x in s, 0 when absent
First(s, x) == IF \E i \in DOMAIN s : s[i] = x
               THEN CHOOSE i \in DOMAIN s : s[i] = x /\ \A j \in 1..(i-1) : s[j] /= x
               ELSE 0

VARIABLES
    has_opened_driver,  \* CyScbContext.has_opened_driver
    entered,            \* per driver: __enter__ returned and __exit__ has not run
    dev,                \* per driver: self.dev is an open USBDeviceHandle
    claimed,            \* per driver: claimInterface done, releaseInterface not issued
    exit_stack,         \* per driver: self.exit_stack holds the release callback
    curr_frequency,     \* per driver: self._curr_frequency
    gone,               \* the device has dropped off the bus (after reset_device)
    i2cErr,             \* device: error state of the I2C read / write sub-module
    config,             \* device: the configuration block it stores
    attached,           \* the USB devices on the bus, as their descriptors
    spi_config,         \* device: the configuration its SPI module holds
    user_flash,         \* device: the pages of its user flash
    call                \* the last driver call: operation, arguments, USB calls, result

vars == <<has_opened_driver, entered, dev, claimed, exit_stack, curr_frequency,
          gone, i2cErr, config, attached, spi_config, user_flash, call>>

\* what the session and transfer handlers of the driver never touch
mgmtVars == <<config, attached>>

\* what the device keeps for set_spi_configuration and program_user_flash
storeVars == <<spi_config, user_flash>>

sessionVars == <<has_opened_driver, entered, dev, claimed, exit_stack>>

\* ---------------------------------------------------- configuration block

\* configuration_block.py:13-18, usb_constants.py  what the constructor expects
CONFIG_BLOCK_EXPECTED_MAGIC == "CYUS"
CONFIG_BLOCK_EXPECTED_MAJOR_VERSIONS == {1, 2}
CY_DEVICE_CONFIG_SIZE == 512

\* driver.py:504-509  the two known-good values of the settings region, the
\* nine bytes at offsets 0x27..0x2f
settings_SPI == <<0, 8, 0, 0, 1, 1, 1, 0, 0>>
settings_other == <<0, 2, 8, 1, 0, 0, 0, 0, 0>>

\* A configuration block, by the fields the driver reads and writes:
\*   size      number of bytes
\*   magic     bytes 0..3
\*   major     byte 4
\*   checksum  the little-endian word at 8..11, as <<high half, low half>>
\*   b1C, b1D  the two device-type bytes
\*   settings  bytes 0x27..0x2f
\*   vid, pid  the little-endian halves at 0x94 and 0x96
\*   rest      the sum of all other words from offset 12 on, as <<high, low>>
Half == 65536

\* configuration_block.py:122-125  _calculate_checksum: the sum of the
\* little-endian words from offset 12 to the end, wrapped to 32 bits.  The
\* sum is kept in two 16-bit halves; byte 0x27 is the top byte of its word.
calculate_checksum(b) ==
    LET t == b.settings
        lo == b.b1C + 256 * b.b1D + t[2] + 256 * t[3] + t[6] + 256 * t[7]
                + b.vid + b.rest[2]
        hi == 256 * t[1] + t[4] + 256 * t[5] + t[8] + 256 * t[9]
                + b.pid + b.rest[1]
    IN <<(hi + (lo \div Half)) % Half, lo % Half>>

\* configuration_block.py:272-281  config_bytes: the bytes, with the checksum
\* field brought up to date
config_bytes(b) == [b EXCEPT !.checksum = calculate_checksum(b)]

\* configuration_block.py:49-65  the checks of the constructor
ConfigurationBlock_init(b) ==
    IF b.size < CY_DEVICE_CONFIG_SIZE THEN "ValueError"
    ELSE IF b.magic /= CONFIG_BLOCK_EXPECTED_MAGIC THEN "ValueError"
    ELSE IF b.major \notin CONFIG_BLOCK_EXPECTED_MAJOR_VERSIONS THEN "ValueError"
    ELSE IF b.checksum /= calculate_checksum(b) THEN "ValueError"
    ELSE "ok"

\* configuration_block.py:146-148  the device_type getter raises ValueError
RAISES == -2

\* configuration_block.py:132-148  the device_type getter
device_type(b) ==
    IF b.b1D = 1 /\ b.b1C = CyType_UART_VENDOR THEN CyType_UART_CDC
    ELSE IF b.b1D = 2 /\ b.b1C = 1 THEN CyType_UART_PHDC
    ELSE IF b.b1D = 3
    THEN (IF b.b1C \in CyTypes THEN b.b1C ELSE RAISES)
    ELSE RAISES

device_type_set_three_bytes(b, value) ==
    [b EXCEPT !.b1C = value, !.b1D = 3, !.rest = <<@[1], (@[2] + 1) % Half>>]

\* configuration_block.py:150-160  the device_type setter
device_type_set(b, value) ==
    IF value = CyType_UART_CDC
    THEN [b EXCEPT !.b1C = CyType_UART_VENDOR, !.b1D = 1]
    ELSE IF value = CyType_UART_PHDC
    THEN [b EXCEPT !.b1C = CyType_UART_VENDOR, !.b1D = 2]
    ELSE [b EXCEPT !.b1C = value, !.b1D = 3]

\* configuration_block.py:283-298  __str__ decodes the block it prints
ConfigurationBlock_str(b) == IF device_type(b) = RAISES THEN "ValueError" ELSE "ok"

NoBlock == [size |-> 0, magic |-> "", major |-> 0, checksum |-> <<0, 0>>,
            b1C |-> 0, b1D |-> 0, settings |-> <<>>, vid |-> 0, pid |-> 0,
            rest |-> <<0, 0>>]

\* What a mode-change call read, asked for and wrote, and its step that failed.
NoMfg == [new_type |-> None, read |-> NoBlock, wrote |-> FALSE, block |-> NoBlock,
          fault |-> "none"]

\* -------------------------------------------------------------- discovery

\* usb_constants.py:33-37  USBClass
USBClass_CDC == 2
USBClass_VENDOR == 255

CyType_has_CDC_DATA_member == TRUE

\* usb_constants.py:40-61  CyType has no member CDC_DATA: evaluating
\* CyType.CDC_DATA raises AttributeError
CyType_has_CDC_DATA == FALSE

\* a local variable of list_devices that no statement has assigned yet
UNBOUND == -3

\* An interface, by what identify_interface looks at: class, subclass, number
\* of endpoints, and whether the endpoints are bulk-out, bulk-in, interrupt-in
\* at the expected addresses.
\* cy_scb_context.py:77-128  identify_interface
identify_interface(intf) ==
    LET is(t) == [exc |-> "none", type |-> t] IN
    IF intf.class = USBClass_CDC
    THEN (IF intf.sub = 2 THEN is(CyType_UART_CDC) ELSE is(None))
    ELSE IF intf.class = 10
    THEN (IF intf.sub = 0
          THEN (IF CyType_has_CDC_DATA THEN is(None)
                ELSE [exc |-> "AttributeError", type |-> None])
          ELSE is(None))
    ELSE IF intf.class = 255
    THEN (IF intf.eps /= 0 THEN is(None)
          ELSE IF intf.sub = CyType_MFG THEN is(CyType_MFG)
          ELSE is(None))
    ELSE IF intf.class = USBClass_VENDOR
    THEN (IF intf.sub \notin {CyType_UART_VENDOR, CyType_SPI, CyType_I2C, CyType_JTAG}
          THEN is(None)
          ELSE IF intf.eps /= 3 THEN is(None)
          ELSE IF ~intf.layout THEN is(None)
          ELSE is(intf.sub))
    ELSE is(None)

\* cy_scb_context.py:185-204  the match statement on an identified interface;
\* the second case pattern, CyType.CDC_DATA, is looked up whenever the first
\* does not match
list_devices_match(type, st) ==
    IF type = CyType_UART_CDC
    THEN [st EXCEPT !.cdc = TRUE, !.curr = CyType_UART_CDC]
    ELSE IF ~CyType_has_CDC_DATA
    THEN [st EXCEPT !.exc = "AttributeError"]
    ELSE IF type = CyType_MFG
    THEN [st EXCEPT !.mfg = TRUE]
    ELSE IF type \in {CyType_I2C, CyType_SPI, CyType_JTAG, CyType_UART_VENDOR}
    THEN [st EXCEPT !.scb = TRUE, !.curr = type]
    ELSE st

\* cy_scb_context.py:180-204  the loop over the interfaces of one device
RECURSIVE list_devices_interfaces(_, _, _)
list_devices_interfaces(ifaces, i, st) ==
    LET identified(id) ==
            IF id.exc /= "none" THEN [st EXCEPT !.exc = id.exc]
            ELSE IF id.type = None THEN st
            ELSE list_devices_match(id.type, st)
    IN
    IF i > Len(ifaces) \/ st.exc /= "none" THEN st
    ELSE list_devices_interfaces(ifaces, i + 1,
                                 identified(identify_interface(ifaces[i])))

NoFilter == [all |-> TRUE, set |-> {}]

list_devices_wanted_as_given(d, vid_pids) ==
    vid_pids.all \/ <<d.vid, d.pid>> \in vid_pids.set

\* cy_scb_context.py:156-161  the (vid, pid) filter: the product id is taken
\* with bit 0 cleared and with bit 0 set
list_devices_wanted(d, vid_pids) ==
    LET even_vid_pid == <<d.vid, d.pid - (d.pid % 2)>>
        odd_vid_pid == <<d.vid, (d.pid - (d.pid % 2)) + 1>>
    IN vid_pids.all \/ even_vid_pid \in vid_pids.set \/ odd_vid_pid \in vid_pids.set

\* cy_scb_context.py:215-245  the DiscoveredDevice built for an accepted device
DiscoveredDevice(d, st, curr_cytype) ==
    LET open_failed == ~d.openable
        serial_number == IF open_failed THEN "" ELSE d.serial
    IN [vid |-> d.vid, pid |-> d.pid, curr_cytype |-> curr_cytype,
        scb |-> st.scb, cdc |-> st.cdc, open_failed |-> open_failed,
        serial_number |-> serial_number,
        serial_port_name |->
            IF curr_cytype = CyType_UART_CDC /\ ~open_failed /\ serial_number /= ""
            THEN d.port ELSE ""]

\* cy_scb_context.py:155-247  one round of the loop over the devices of the
\* bus.  loc holds what outlives the round: the list, and the two locals
\* curr_cytype and mfg_interface_settings, which no round resets.
\* considered tells, for each device the loop came to, whether the round went
\* past the continue of line 161.
list_devices_device(d, vid_pids, loc0) ==
    LET past(loc) ==
            IF d.configs /= 1 THEN loc
            ELSE IF Len(d.ifaces) \notin {2, 3, 4} THEN loc
            ELSE LET scanned(st) ==
                     LET kept == [loc EXCEPT !.curr = st.curr, !.mfg = st.mfg] IN
                     IF st.exc /= "none" THEN [kept EXCEPT !.exc = st.exc]
                     ELSE IF st.curr = UNBOUND
                     THEN [kept EXCEPT !.exc = "UnboundLocalError"]
                     ELSE IF ~st.mfg THEN [kept EXCEPT !.exc = "UnboundLocalError"]
                     ELSE IF ~st.scb /\ ~st.cdc THEN kept
                     ELSE [kept EXCEPT
                             !.curr = CyType_MFG,
                             !.list = Append(@, DiscoveredDevice(d, st, CyType_MFG))]
                 IN scanned(list_devices_interfaces(d.ifaces, 1,
                                [exc |-> "none", curr |-> loc.curr, mfg |-> loc.mfg,
                                 cdc |-> FALSE, scb |-> FALSE]))
    IN
    IF ~list_devices_wanted(d, vid_pids)
    THEN [loc0 EXCEPT !.considered = Append(@, FALSE)]
    ELSE past([loc0 EXCEPT !.considered = Append(@, TRUE)])

RECURSIVE list_devices_loop(_, _, _, _)
list_devices_loop(devs, i, vid_pids, loc) ==
    IF i > Len(devs) \/ loc.exc /= "none" THEN loc
    ELSE list_devices_loop(devs, i + 1, vid_pids,
                           list_devices_device(devs[i], vid_pids, loc))

\* cy_scb_context.py:132-249  CyScbContext.list_devices: the exception raised,
\* or the list returned
CyScbContext_list_devices(devs, vid_pids) ==
    LET outcome(loc) ==
            [exc |-> loc.exc, list |-> IF loc.exc = "none" THEN loc.list ELSE <<>>,
             considered |-> loc.considered]
    IN outcome(list_devices_loop(devs, 1, vid_pids,
                   [exc |-> "none", curr |-> UNBOUND, mfg |-> FALSE, list |-> <<>>,
                    considered |-> <<>>]))

\* the interfaces a bus may show
ScbInterface(sub) == [class |-> USBClass_VENDOR, sub |-> sub, eps |-> 3, layout |-> TRUE]
MfgInterface == [class |-> USBClass_VENDOR, sub |-> CyType_MFG, eps |-> 0, layout |-> FALSE]
CdcInterface == [class |-> USBClass_CDC, sub |-> 2, eps |-> 1, layout |-> FALSE]
CdcDataInterface == [class |-> 10, sub |-> 0, eps |-> 2, layout |-> FALSE]
HidInterface == [class |-> 3, sub |-> 0, eps |-> 1, layout |-> FALSE]

\* a USB device as the bus shows it: ids, number of configurations, the
\* interfaces of its configuration, whether it can be opened, its serial
\* number string and the serial port the OS gave it ("" for none)
UsbDevice(pid, ifaces, serial) ==
    [vid |-> DEFAULT_VID, pid |-> pid, configs |-> 1, ifaces |-> ifaces,
     openable |-> TRUE, serial |-> serial, port |-> ""]

\* a bridge in I2C mode, in SPI mode and in UART_CDC mode
I2cBridge == UsbDevice(DEFAULT_PID, <<ScbInterface(CyType_I2C), MfgInterface>>, "A")
SpiBridge == UsbDevice(DEFAULT_PID, <<ScbInterface(CyType_SPI), MfgInterface>>, "B")
CdcBridge ==
    [UsbDevice(DEFAULT_PID + 1, <<CdcInterface, CdcDataInterface, MfgInterface>>, "A")
       EXCEPT !.port = "ttyACM0"]

\* a device with a CDC interface and no manufacturing interface, one with a
\* manufacturing interface only, one with nothing the driver knows
CdcOnlyDevice == UsbDevice(DEFAULT_PID + 1, <<CdcInterface, HidInterface>>, "B")
MfgOnlyDevice == UsbDevice(DEFAULT_PID, <<HidInterface, MfgInterface>>, "B")
HidDevice == UsbDevice(DEFAULT_PID, <<HidInterface, HidInterface>>, "B")

\* the devices a bus may hold: these, a bridge that cannot be opened, a
\* device with a single interface, a bridge of another vendor
Catalogue ==
    {I2cBridge, SpiBridge, CdcBridge, CdcOnlyDevice, MfgOnlyDevice, HidDevice,
     [UsbDevice(DEFAULT_PID, <<ScbInterface(CyType_I2C), MfgInterface>>, "B")
        EXCEPT !.openable = FALSE],
     UsbDevice(DEFAULT_PID, <<HidInterface>>, "A"),
     [UsbDevice(DEFAULT_PID, <<ScbInterface(CyType_SPI), MfgInterface>>, "A")
        EXCEPT !.vid = DEFAULT_VID + 1]}

MaxDevices == 2      \* devices on the bus

Buses == UNION {[1..n -> Catalogue] : n \in 0..MaxDevices}

\* the bus with one bridge as it ships
FactoryBus == <<I2cBridge>>

NoDevice == [vid |-> 0, pid |-> 0, curr_cytype |-> None, scb |-> FALSE, cdc |-> FALSE,
             open_failed |-> FALSE, serial_number |-> "", serial_port_name |-> ""]

\* What a discovery call was asked and what it found.
NoScan == [mode |-> "", serial |-> "", exc |-> "none", list |-> <<>>,
           device |-> NoDevice, scans |-> 0, returned |-> "",
           filter |-> NoFilter, considered |-> <<>>]

\* The record kept of one driver call.
\*   usb     the USB calls issued, in order
\*   guard0  has_opened_driver when the call started
\*   open0   the drivers whose session was open when the call started
\*   freq0   self._curr_frequency when the call started
\*   arg     the arguments of the call and what the device answered
\*   spi     what the two bulk transfers and the status poll of an SPI call did
\*   mfg     what a mode change read from the device and wrote to it
\*   scan    what a discovery call found
NoSpi == [tx |-> "none", rx |-> "none", actual |-> 0, wait |-> 0, polls |-> <<>>,
          busy |-> 0, expired |-> FALSE]

\* the configuration of a call that has none
NoSpiConfig ==
    [frequency |-> 0, word_size |-> 0, mode |-> "", msbit_first |-> FALSE,
     continuous_ssel |-> FALSE, ti_select_precede |-> FALSE]

\* the pages of the user flash, by number, and a page nothing was written to
FlashPages == 0..3
ErasedPage == 0

\* the kernel drivers of a call that met none: the interfaces the discovered
\* device has, those a kernel driver is bound to when the session is entered,
\* whether unbinding the CDC control interface unbinds the data interface with
\* it, and those a kernel driver is still bound to when the interface is claimed
NoKernel == [present |-> {"mfg", "scb"}, active |-> {}, sibling |-> FALSE, left |-> {}]

NoArg == [addr |-> 0, size |-> 0, st |-> <<0, 0, 0>>, in |-> "none", spi |-> NoSpi,
          mfg |-> NoMfg, scan |-> NoScan, cfg |-> NoSpiConfig, data |-> <<>>,
          io_timeout |-> None, kernel |-> NoKernel]

Call(op, d, result, usb) ==
    [op |-> op, drv |-> d, result |-> result, usb |-> usb,
     guard0 |-> has_opened_driver, open0 |-> {e \in Drivers : entered[e]},
     freq0 |-> curr_frequency[d], bytes_written |-> 0, arg |-> NoArg]

\* ---------------------------------------------------------------- session

EnterFaults == {"none", "open", "claim", "signature_io", "version"}
Signatures == {"CYUS", "CYBL", "CYU"}

\* what the transport and the device answer during one __enter__: the step
\* that raises a transport error (if any) and the signature the device returns
EnterAnswers == {a \in EnterFaults \X Signatures :
                   a[1] \in {"none", "version"} \/ a[2] = "CYUS"}

\* a block as the device ships: I2C mode, even PID, consistent checksum
FactoryBlock ==
    config_bytes([size |-> CY_DEVICE_CONFIG_SIZE, magic |-> CONFIG_BLOCK_EXPECTED_MAGIC,
                  major |-> 1, checksum |-> <<0, 0>>, b1C |-> CyType_I2C, b1D |-> 3,
                  settings |-> settings_other, vid |-> DEFAULT_VID,
                  pid |-> DEFAULT_PID, rest |-> <<0, 0>>])

\* no driver object has a session, the device is on the bus
InitSession ==
    /\ has_opened_driver = FALSE
    /\ entered = [d \in Drivers |-> FALSE]
    /\ dev = [d \in Drivers |-> FALSE]
    /\ claimed = [d \in Drivers |-> FALSE]
    /\ exit_stack = [d \in Drivers |-> FALSE]
    /\ curr_frequency = [d \in Drivers |-> None]
    /\ gone = FALSE
    /\ spi_config = [i \in 1..16 |-> 0]
    /\ user_flash = [p \in FlashPages |-> ErasedPage]
    /\ call = [op |-> "init", drv |-> 1, result |-> "ok", usb |-> <<>>,
               guard0 |-> FALSE, open0 |-> {}, freq0 |-> None, bytes_written |-> 0,
               arg |-> NoArg]

Init ==
    /\ InitSession
    /\ i2cErr \in [Modes -> {"clear", "set", "stuck"}]
    /\ config = FactoryBlock
    /\ attached = FactoryBus

AlreadyOpen_never == FALSE

\* driver.py:123  the one-session guard of the context
AlreadyOpen == has_opened_driver

\* driver.py:122-205  CySerBridgeBase.__enter__: the result, the USB calls and
\* the fields it leaves behind.  The ExitStack of line 128 is left at line 138,
\* before anything is pushed on it, so nothing unwinds it on a later failure.
CySerBridgeBase_enter(d, fault, signature) ==
    LET keep == [dev |-> dev[d], claimed |-> claimed[d], stack |-> exit_stack[d],
                 guard |-> has_opened_driver]
    IN
    IF AlreadyOpen
    THEN keep @@ [result |-> "AlreadyOpen", usb |-> <<>>]
    ELSE IF fault = "open" \/ gone
    THEN keep @@ [result |-> "USBError", usb |-> <<"open">>]
    ELSE IF fault = "claim"
    THEN [keep EXCEPT !.dev = TRUE]
         @@ [result |-> "USBError",
             usb |-> <<"open", "setConfiguration", "claimInterface">>]
    ELSE IF fault = "signature_io"
    THEN [keep EXCEPT !.dev = TRUE, !.claimed = TRUE]
         @@ [result |-> "USBError",
             usb |-> <<"open", "setConfiguration", "claimInterface", "get_signature">>]
    ELSE IF signature /= "CYUS"
    THEN [keep EXCEPT !.dev = FALSE, !.claimed = TRUE]
         @@ [result |-> "BadSignature",
             usb |-> <<"open", "setConfiguration", "claimInterface", "get_signature",
                       "close">>]
    ELSE IF fault = "version"
    THEN [keep EXCEPT !.dev = TRUE, !.claimed = TRUE]
         @@ [result |-> "USBError",
             usb |-> <<"open", "setConfiguration", "claimInterface", "get_signature",
                       "get_firmware_version">>]
    ELSE [dev |-> TRUE, claimed |-> TRUE, stack |-> TRUE, guard |-> TRUE,
          result |-> "ok",
          usb |-> <<"open", "setConfiguration", "claimInterface", "get_signature",
                    "get_firmware_version">>]

\* the fields of the session a finished __enter__ leaves behind
SetSession(d, r, ok) ==
    /\ has_opened_driver' = r.guard
    /\ dev' = [dev EXCEPT ![d] = r.dev]
    /\ claimed' = [claimed EXCEPT ![d] = r.claimed]
    /\ exit_stack' = [exit_stack EXCEPT ![d] = r.stack]
    /\ entered' = [entered EXCEPT ![d] = @ \/ ok]

\* utils.py:45-54  the interfaces a DiscoveredDevice holds: a bridge in a
\* vendor mode, and a bridge in UART_CDC mode
DeviceInterfaces == {{"mfg", "scb"}, {"mfg", "cdc", "cdc_data"}}

\* the kernel drivers the operating system has bound when a session is entered
KernelDrivers ==
    {[present |-> p, active |-> a, sibling |-> s, left |-> {}] :
        p \in DeviceInterfaces, a \in SUBSET {"mfg", "scb", "cdc", "cdc_data"},
        s \in BOOLEAN}

\* driver.py:146-153  all_interfaces, in the order of the tuple, without the
\* entries that are None
all_interfaces(present) ==
    SelectSeq(<<"mfg", "scb", "cdc", "cdc">>, LAMBDA iface : iface \in present)

detachKernelDriver(iface) ==
    CASE iface = "mfg" -> "detachKernelDriver_mfg"
      [] iface = "scb" -> "detachKernelDriver_scb"
      [] iface = "cdc" -> "detachKernelDriver_cdc"
      [] OTHER -> "detachKernelDriver_cdc_data"

\* driver.py:154-156  the detach loop from entry i of all_interfaces on: the
\* USB calls issued and the interfaces a kernel driver stays bound to
RECURSIVE detach_loop(_, _, _, _, _)
detach_loop(ifaces, i, active, sibling, usb) ==
    IF i > Len(ifaces)
    THEN [usb |-> usb, left |-> active]
    ELSE IF ifaces[i] \in active
    THEN detach_loop(ifaces, i + 1,
                     active \ (IF sibling /\ ifaces[i] = "cdc"
                               THEN {"cdc", "cdc_data"} ELSE {ifaces[i]}),
                     sibling, Append(usb, detachKernelDriver(ifaces[i])))
    ELSE detach_loop(ifaces, i + 1, active, sibling, usb)

\* driver.py:134-173  the USB calls of the base __enter__ with the detach
\* loop, which runs once open() has returned
enter_detached(r, k) ==
    LET spliced(l) ==
            [result |-> r.result, dev |-> r.dev, claimed |-> r.claimed,
             stack |-> r.stack, guard |-> r.guard, left |-> l.left,
             usb |-> <<"open">> \o l.usb \o SubSeq(r.usb, 2, Len(r.usb))]
    IN IF Len(r.usb) < 2
       THEN r @@ [left |-> k.active \cap k.present]
       ELSE spliced(detach_loop(all_interfaces(k.present), 1,
                                k.active \cap k.present, k.sibling, <<>>))

\* driver.py:369-395  CyMfgrIface has no __enter__ of its own: the base one
\* runs, here on a device with the kernel drivers of kernels bound
CyMfgrIface_enter_of(d, kernels) ==
    /\ KindOf(d) = "MFG"
    /\ \E a \in EnterAnswers, k \in kernels :
         \E r \in {enter_detached(CySerBridgeBase_enter(d, a[1], a[2]), k)} :
           /\ SetSession(d, r, r.result = "ok")
           /\ call' = [Call("enter", d, r.result, r.usb) EXCEPT
                         !.arg.in = a[2],
                         !.arg.kernel = [present |-> k.present,
                                         active |-> k.active \cap k.present,
                                         sibling |-> k.sibling, left |-> r.left]]
    /\ UNCHANGED <<curr_frequency, gone, i2cErr>>
    /\ UNCHANGED mgmtVars
    /\ UNCHANGED storeVars

\* the same on a device no kernel driver is bound to
CyMfgrIface_enter(d) == CyMfgrIface_enter_of(d, {NoKernel})

\* device: CY_I2C_RESET_CMD clears the error state of a sub-module that works
ResetMode(err, m) == [err EXCEPT ![m] = IF @ = "stuck" THEN "stuck" ELSE "clear"]

i2c_enter_resets_read_only == <<"i2c_reset_R">>

\* driver.py:557-558  the two resets CyI2CControllerBridge.__enter__ issues
i2c_enter_resets == <<"i2c_reset_R", "i2c_reset_W">>

\* driver.py:552-568  CyI2CControllerBridge.__enter__
CyI2CControllerBridge_enter(d) ==
    /\ KindOf(d) = "I2C"
    /\ \E a \in EnterAnswers :
         LET signature == a[2]
             r == CySerBridgeBase_enter(d, a[1], signature)
             err2 == ResetMode(ResetMode(i2cErr, MODE_READ), MODE_WRITE)
             resets == r.usb \o i2c_enter_resets
         IN
         IF r.result /= "ok"
         THEN /\ SetSession(d, r, FALSE)
              /\ call' = [Call("enter", d, r.result, r.usb) EXCEPT !.arg.in = signature]
              /\ UNCHANGED i2cErr
         ELSE /\ i2cErr' = err2
              /\ IF err2[MODE_READ] /= "clear"
                 THEN /\ SetSession(d, r, FALSE)
                      /\ call' = [Call("enter", d, "I2CNotReady",
                                       resets \o <<"i2c_status_R">>)
                                  EXCEPT !.arg.in = signature]
                 ELSE IF err2[MODE_WRITE] /= "clear"
                 THEN /\ SetSession(d, r, FALSE)
                      /\ call' = [Call("enter", d, "I2CNotReady",
                                       resets \o <<"i2c_status_R", "i2c_status_W">>)
                                  EXCEPT !.arg.in = signature]
                 ELSE /\ SetSession(d, r, TRUE)
                      /\ call' = [Call("enter", d, "ok",
                                       resets \o <<"i2c_status_R", "i2c_status_W">>)
                                  EXCEPT !.arg.in = signature]
    /\ UNCHANGED <<curr_frequency, gone>>
    /\ UNCHANGED mgmtVars
    /\ UNCHANGED storeVars

\* driver.py:935-941  CySPIControllerBridge.__enter__
CySPIControllerBridge_enter(d) ==
    /\ KindOf(d) = "SPI"
    /\ \E a \in EnterAnswers :
         LET signature == a[2]
             r == CySerBridgeBase_enter(d, a[1], signature) IN
         /\ SetSession(d, r, r.result = "ok")
         /\ call' = [Call("enter", d, r.result,
                          IF r.result = "ok" THEN r.usb \o <<"spi_reset">> ELSE r.usb)
                     EXCEPT !.arg.in = signature]
    /\ UNCHANGED <<curr_frequency, gone, i2cErr>>
    /\ UNCHANGED mgmtVars
    /\ UNCHANGED storeVars

\* driver.py:212-213  what leaving the session does with the exit stack:
\* pop_all() moves the callbacks to a new stack and runs none of them.
exit_stack_pop_all(d) == <<>>

\* driver.py:207-222  CySerBridgeBase.__exit__
CySerBridgeBase_exit(d) ==
    /\ entered[d]
    /\ LET released == exit_stack_pop_all(d) IN
       /\ call' = Call("exit", d,
                       IF has_opened_driver THEN "ok" ELSE "GuardError",
                       released \o (IF dev[d] THEN <<"close">> ELSE <<>>))
       /\ claimed' = [claimed EXCEPT ![d] = IF released /= <<>> THEN FALSE ELSE @]
    /\ exit_stack' = [exit_stack EXCEPT ![d] = FALSE]
    /\ dev' = [dev EXCEPT ![d] = FALSE]
    /\ has_opened_driver' = FALSE
    /\ entered' = [entered EXCEPT ![d] = FALSE]
    /\ UNCHANGED <<curr_frequency, gone, i2cErr>>
    /\ UNCHANGED mgmtVars
    /\ UNCHANGED storeVars

\* how the control write of reset_device ends
ResetAnswers == {"ok", "pipe", "no_device", "timeout", "io"}

reset_device_result_pipe_only(answer) ==
    CASE answer = "pipe" -> "ok"
      [] answer = "no_device" -> "USBErrorNoDevice"
      [] answer = "timeout" -> "USBErrorTimeout"
      [] answer = "io" -> "USBError"
      [] OTHER -> "ok"

\* driver.py:299-304  the two exceptions reset_device swallows
reset_device_result(answer) ==
    CASE answer = "pipe" -> "ok"
      [] answer = "no_device" -> "ok"
      [] answer = "timeout" -> "USBErrorTimeout"
      [] answer = "io" -> "USBError"
      [] OTHER -> "ok"

\* driver.py:282-304  reset_device: the control write usually ends in a pipe
\* or a no-device error, which is swallowed, and the device leaves the bus;
\* after another transport error the device may or may not have taken the
\* request.  The record keeps the mode change the reset directly follows,
\* if any.
reset_device(d) ==
    /\ entered[d]
    /\ ~gone
    /\ \E answer \in ResetAnswers, left \in BOOLEAN :
         /\ reset_device_result(answer) = "ok" => left
         /\ gone' = left
         /\ call' = [Call("reset_device", d, reset_device_result(answer),
                          <<"device_reset">>) EXCEPT
                       !.arg.in = answer,
                       !.arg.mfg = IF call.op = "change_type" /\ call.drv = d
                                   THEN call.arg.mfg ELSE NoMfg]
    /\ UNCHANGED <<sessionVars, curr_frequency, i2cErr>>
    /\ UNCHANGED mgmtVars
    /\ UNCHANGED storeVars

\* driver.py:286-288  the device re-enumerates after a reset, freshly booted
Reenumerate ==
    /\ gone
    /\ gone' = FALSE
    /\ i2cErr' = [m \in Modes |-> "clear"]
    /\ UNCHANGED <<sessionVars, curr_frequency, call>>
    /\ UNCHANGED mgmtVars
    /\ UNCHANGED storeVars

\* ------------------------------------------------------------------- I2C

I2cAddrs == {MAX_VALID_ADDRESS, MAX_VALID_ADDRESS + 1}
I2cFrequencies == {I2C_MIN_FREQUENCY - 1, 100000, I2C_MAX_FREQUENCY + 1}
Sizes == 0..MaxLen

\* a status / notification of 3 bytes: the flag byte, then a 16-bit count
Statuses == {<<b0, c[1], c[2]>> : b0 \in 0..15, c \in {<<3, 0>>, <<1, 1>>}}

\* what the transport and the device answer to one I2C transfer: how the bulk
\* phase and the notification read end, and the status the driver gets to see
\* (the notification, or the status re-queried after a stall)
I2cAnswers ==
    {[bulk |-> "timeout", intr |-> "none", st |-> <<0, 0, 0>>],
     [bulk |-> "ok", intr |-> "timeout", st |-> <<0, 0, 0>>]}
    \cup {[bulk |-> "ok", intr |-> "ok", st |-> s] : s \in Statuses}
    \cup {[bulk |-> "pipe", intr |-> "none", st |-> s] : s \in Statuses}
    \cup {[bulk |-> "ok", intr |-> "pipe", st |-> s] : s \in Statuses}

\* driver.py:606-642  set_i2c_configuration: the frequency is cached first,
\* checked second
set_i2c_configuration(d) ==
    /\ KindOf(d) = "I2C"
    /\ entered[d]
    /\ ~gone
    /\ \E frequency \in I2cFrequencies :
         /\ curr_frequency' = [curr_frequency EXCEPT ![d] = frequency]
         /\ call' = [IF frequency < I2C_MIN_FREQUENCY \/ frequency > I2C_MAX_FREQUENCY
                     THEN Call("set_i2c_configuration", d, "ValueError", <<>>)
                     ELSE Call("set_i2c_configuration", d, "ok", <<"i2c_set_config">>)
                     EXCEPT !.arg.size = frequency]
    /\ UNCHANGED <<sessionVars, gone, i2cErr>>
    /\ UNCHANGED mgmtVars
    /\ UNCHANGED storeVars

i2c_read_usage_fault_noaddr(frequency, periph_addr, size) ==
    IF frequency = None THEN "UsageError"
    ELSE IF size < 1 THEN "ValueError"
    ELSE "ok"

\* driver.py:683-694  the eager checks of i2c_read
i2c_read_usage_fault(frequency, periph_addr, size) ==
    IF frequency = None THEN "UsageError"
    ELSE IF periph_addr > MAX_VALID_ADDRESS THEN "ValueError"
    ELSE IF size < 1 THEN "ValueError"
    ELSE "ok"

\* driver.py:782-788  the eager checks of i2c_write
i2c_write_usage_fault(frequency, periph_addr) ==
    IF frequency = None THEN "UsageError"
    ELSE IF periph_addr > MAX_VALID_ADDRESS THEN "ValueError"
    ELSE "ok"

i2c_decode_nak_first(st0) ==
    IF HasBit(st0, NAK_ERROR_BIT) THEN "I2CNACKError"
    ELSE IF HasBit(st0, ARBITRATION_ERROR_BIT) THEN "I2CArbLostError"
    ELSE IF HasBit(st0, BUS_ERROR_BIT) THEN "I2CBusError"
    ELSE "ProtocolFault"

\* driver.py:748-758 and 840-850  the error selected from the flag byte
i2c_decode(st0) ==
    IF HasBit(st0, ARBITRATION_ERROR_BIT) THEN "I2CArbLostError"
    ELSE IF HasBit(st0, NAK_ERROR_BIT) THEN "I2CNACKError"
    ELSE IF HasBit(st0, BUS_ERROR_BIT) THEN "I2CBusError"
    ELSE "ProtocolFault"

partial_transfer_len_big_endian(st) == 256 * st[2] + st[3]

\* driver.py:834  struct.unpack("<H", post_transfer_status[1:3])
partial_transfer_len(st) == st[2] + 256 * st[3]

i2c_read_fault_cleanup_none == <<>>

\* driver.py:744-745  the cleanup of i2c_read before it raises a decoded error
i2c_read_fault_cleanup == <<"i2c_reset_R">>

\* driver.py:836-837  the cleanup of i2c_write before it raises a decoded error
i2c_write_fault_cleanup == <<"i2c_reset_W">>

\* driver.py:701-760  i2c_read once its arguments are accepted
i2c_read_transfer(ans) ==
    LET setup == <<"i2c_status_R", "i2c_read_setup", "bulkRead">>
        waited == IF ans.bulk = "ok" THEN setup \o <<"interruptRead">> ELSE setup
        st0 == ans.st[1]
    IN
    IF ans.bulk = "timeout" \/ ans.intr = "timeout"
    THEN [result |-> "USBErrorTimeout", usb |-> waited, bytes_written |-> 0]
    ELSE IF ans.bulk = "pipe" \/ ans.intr = "pipe"
    THEN IF ~HasBit(st0, ERROR_BIT)
         THEN [result |-> "Inconsistent", bytes_written |-> 0,
               usb |-> waited \o <<"clearHalt_in", "i2c_status_R">>]
         ELSE [result |-> "USBErrorPipe", bytes_written |-> 0,
               usb |-> waited \o <<"clearHalt_in", "i2c_status_R">>]
    ELSE IF HasBit(st0, ERROR_BIT)
    THEN [result |-> i2c_decode(st0), bytes_written |-> 0,
          usb |-> waited \o i2c_read_fault_cleanup]
    ELSE [result |-> "ok", usb |-> waited, bytes_written |-> 0]

\* driver.py:795-850  i2c_write once its arguments are accepted
i2c_write_transfer(ans) ==
    LET setup == <<"i2c_status_W", "i2c_write_setup", "bulkWrite">>
        waited == IF ans.bulk = "ok" THEN setup \o <<"interruptRead">> ELSE setup
        stalled == ans.bulk = "pipe" \/ ans.intr = "pipe"
        seen == IF stalled THEN waited \o <<"clearHalt_out", "i2c_status_W">> ELSE waited
        st0 == ans.st[1]
    IN
    IF ans.bulk = "timeout" \/ ans.intr = "timeout"
    THEN [result |-> "USBErrorTimeout", usb |-> waited, bytes_written |-> 0]
    ELSE IF stalled /\ ~HasBit(st0, ERROR_BIT)
    THEN [result |-> "Inconsistent", usb |-> seen, bytes_written |-> 0]
    ELSE IF HasBit(st0, ERROR_BIT)
    THEN [result |-> i2c_decode(st0),
          usb |-> seen \o i2c_write_fault_cleanup,
          bytes_written |-> IF i2c_decode(st0) = "I2CNACKError"
                            THEN partial_transfer_len(ans.st) ELSE 0]
    ELSE [result |-> "ok", usb |-> seen, bytes_written |-> 0]

\* device: the error state of sub-module m after a transfer in which the
\* driver saw status st and issued the USB calls usb
ErrAfter(m, ans, usb) ==
    IF Count(usb, IF m = MODE_READ THEN "i2c_reset_R" ELSE "i2c_reset_W") > 0 THEN "clear"
    ELSE IF ans.bulk /= "timeout" /\ ans.intr /= "timeout" /\ HasBit(ans.st[1], ERROR_BIT)
    THEN "set"
    ELSE i2cErr[m]

\* device: a transfer that timed out and was not followed by a reset may
\* leave the sub-module as it was or in its error state
ErrsAfter(m, ans, usb) ==
    IF (ans.bulk = "timeout" \/ ans.intr = "timeout")
       /\ Count(usb, IF m = MODE_READ THEN "i2c_reset_R" ELSE "i2c_reset_W") = 0
    THEN {i2cErr[m], "set"}
    ELSE {ErrAfter(m, ans, usb)}

i2c_initial_status_fault_ignored(err) == "ok"

\* driver.py:701-705 and 795-799  the status query that opens a transfer
i2c_initial_status_fault(err) == IF err /= "clear" THEN "Busy" ELSE "ok"

\* driver.py:664-760  CyI2CControllerBridge.i2c_read
i2c_read_of(d, inputs) ==
    /\ KindOf(d) = "I2C"
    /\ entered[d]
    /\ ~gone
    /\ \E periph_addr \in inputs.addrs, size \in inputs.sizes :
         LET usage == i2c_read_usage_fault(curr_frequency[d], periph_addr, size)
             c == [Call("i2c_read", d, usage, <<>>)
                   EXCEPT !.arg.addr = periph_addr, !.arg.size = size]
         IN
         IF usage /= "ok"
         THEN call' = c /\ UNCHANGED i2cErr
         ELSE IF i2c_initial_status_fault(i2cErr[MODE_READ]) /= "ok"
         THEN /\ call' = [c EXCEPT !.result = "Busy", !.usb = <<"i2c_status_R">>]
              /\ UNCHANGED i2cErr
         ELSE \E ans \in inputs.i2c :
                LET r == i2c_read_transfer(ans) IN
                /\ call' = [c EXCEPT !.result = r.result, !.usb = r.usb,
                                     !.bytes_written = r.bytes_written,
                                     !.arg.st = ans.st,
                                     !.arg.in = IF ans.bulk = "ok" THEN ans.intr
                                                ELSE ans.bulk]
                /\ \E e \in ErrsAfter(MODE_READ, ans, r.usb) :
                     i2cErr' = [i2cErr EXCEPT ![MODE_READ] = e]
    /\ UNCHANGED <<sessionVars, curr_frequency, gone>>
    /\ UNCHANGED mgmtVars
    /\ UNCHANGED storeVars

\* driver.py:762-850  CyI2CControllerBridge.i2c_write
i2c_write_of(d, inputs) ==
    /\ KindOf(d) = "I2C"
    /\ entered[d]
    /\ ~gone
    /\ \E periph_addr \in inputs.addrs, size \in inputs.sizes :
         LET usage == i2c_write_usage_fault(curr_frequency[d], periph_addr)
             c == [Call("i2c_write", d, usage, <<>>)
                   EXCEPT !.arg.addr = periph_addr, !.arg.size = size]
         IN
         IF usage /= "ok"
         THEN call' = c /\ UNCHANGED i2cErr
         ELSE IF i2c_initial_status_fault(i2cErr[MODE_WRITE]) /= "ok"
         THEN /\ call' = [c EXCEPT !.result = "Busy", !.usb = <<"i2c_status_W">>]
              /\ UNCHANGED i2cErr
         ELSE \E ans \in inputs.i2c :
                LET r == i2c_write_transfer(ans) IN
                /\ call' = [c EXCEPT !.result = r.result, !.usb = r.usb,
                                     !.bytes_written = r.bytes_written,
                                     !.arg.st = ans.st,
                                     !.arg.in = IF ans.bulk = "ok" THEN ans.intr
                                                ELSE ans.bulk]
                /\ \E e \in ErrsAfter(MODE_WRITE, ans, r.usb) :
                     i2cErr' = [i2cErr EXCEPT ![MODE_WRITE] = e]
    /\ UNCHANGED <<sessionVars, curr_frequency, gone>>
    /\ UNCHANGED mgmtVars
    /\ UNCHANGED storeVars


\* ------------------------------------------------------------------- SPI

SpiFrequencies == {SPI_MIN_FREQUENCY - 1, 1000000, SPI_MAX_MASTER_FREQUENCY + 1}
WordSizes == {MIN_WORD_SIZE - 1, 8, MAX_WORD_SIZE + 1}
Lengths == 1..MaxLen

\* the io_timeout a caller passes, in ms: None has the driver compute one,
\* 0 is documented as waiting forever (driver.py:1067-1068, 1175-1176)
IoTimeouts == {None, 0, 1}

\* wall-clock time, in ms, that one blocking bulk phase or one round of the
\* USB event loop takes
EventDurations == {0, 2000000}

\* wall-clock time, in ms, from one deadline test of the completion poll to
\* the next: the status poll plus time.sleep(0.001), so never under 1 ms
PollDurations == {500, 2000000}

\* what the device answers to the status poll: one entry per busy answer it
\* would give before it answers idle, holding the time that round takes
\* (the rounds of one call take equally long)
PollAnswers == {[i \in 1..k |-> t] : k \in 0..MaxPolls, t \in PollDurations}

\* what the transport answers to the one bulk transfer of spi_write / spi_read:
\* its outcome, the time it took, and the status polls that follow
SpiBulkAnswers ==
    {[bulk |-> b, wait |-> 0, polls |-> <<>>] : b \in {"pipe", "timeout", "io", "short"}}
    \cup {[bulk |-> "ok", wait |-> w, polls |-> p] : w \in EventDurations, p \in PollAnswers}

\* what the transport answers to the two transfers of spi_transfer(n bytes):
\* the state each transfer is in when the wait ends ("pending": still
\* submitted at the deadline), the time the wait took, the length received,
\* and the status polls that follow
TransferStates == {"completed", "stall", "error", "pending"}

SpiTransferAnswers(n) ==
    {[tx |-> t, rx |-> r, actual |-> n, wait |-> w, polls |-> <<>>] :
        t \in TransferStates, r \in TransferStates, w \in EventDurations}
    \cup {[tx |-> "completed", rx |-> "completed", actual |-> n - 1,
           wait |-> w, polls |-> <<>>] : w \in EventDurations}
    \cup {[tx |-> "completed", rx |-> "completed", actual |-> n,
           wait |-> w, polls |-> p] : w \in EventDurations, p \in PollAnswers}

\* driver.py:853-884  CySPIMode, in the order of the enumeration, and the
\* value (standard, CPHA, CPOL) of each member
CySPIMode ==
    <<"MOTOROLA_MODE_0", "MOTOROLA_MODE_1", "MOTOROLA_MODE_2", "MOTOROLA_MODE_3",
      "TI", "NATIONAL_MICROWIRE">>

CySPIMode_value(mode) ==
    CASE mode = "MOTOROLA_MODE_0" -> <<0, 0, 0>>
      [] mode = "MOTOROLA_MODE_1" -> <<0, 0, 1>>
      [] mode = "MOTOROLA_MODE_2" -> <<0, 1, 0>>
      [] mode = "MOTOROLA_MODE_3" -> <<0, 1, 1>>
      [] mode = "TI" -> <<1, 0, 1>>
      [] mode = "NATIONAL_MICROWIRE" -> <<2, 0, 0>>

\* driver.py:887-909  CySPIConfig with its default values
CySPIConfig ==
    [frequency |-> 1000000, word_size |-> 8, mode |-> "MOTOROLA_MODE_0",
     msbit_first |-> TRUE, continuous_ssel |-> TRUE, ti_select_precede |-> TRUE]

\* the configurations a caller passes: default mode and flags, or any
SpiConfigsDefault ==
    {[CySPIConfig EXCEPT !.frequency = f, !.word_size = w] :
        f \in SpiFrequencies, w \in WordSizes}

SpiConfigs ==
    [frequency : {SPI_MIN_FREQUENCY, SPI_MAX_MASTER_FREQUENCY},
     word_size : {MIN_WORD_SIZE, MAX_WORD_SIZE},
     mode : {CySPIMode[i] : i \in DOMAIN CySPIMode},
     msbit_first : BOOLEAN, continuous_ssel : BOOLEAN, ti_select_precede : BOOLEAN]
    \cup SpiConfigsDefault

\* struct format B given a bool
pack_B(b) == IF b THEN 1 ELSE 0

\* struct format <I: four bytes, least significant first
pack_I(n) == <<n % 256, (n \div 256) % 256, (n \div 65536) % 256, (n \div 16777216) % 256>>

unpack_I(b) == b[1] + 256 * b[2] + 65536 * b[3] + 16777216 * b[4]

spi_config_pack_cpol_first(cfg) ==
    pack_I(cfg.frequency) \o
    <<cfg.word_size, CySPIMode_value(cfg.mode)[1], 0, pack_B(cfg.msbit_first), 1,
      pack_B(cfg.continuous_ssel), pack_B(cfg.ti_select_precede),
      CySPIMode_value(cfg.mode)[3], CySPIMode_value(cfg.mode)[2], 0, 0, 0>>

\* driver.py:997-1010, usb_constants.py:254  the 16 bytes "<I10B2x" packs:
\* frequency, dataWidth, mode, xferMode, isMsbFirst, isMaster, isContinuous,
\* isSelectPrecede, cpha, cpol, isLoopback, two pad bytes
spi_config_pack(cfg) ==
    pack_I(cfg.frequency) \o
    <<cfg.word_size, CySPIMode_value(cfg.mode)[1], 0, pack_B(cfg.msbit_first), 1,
      pack_B(cfg.continuous_ssel), pack_B(cfg.ti_select_precede),
      CySPIMode_value(cfg.mode)[2], CySPIMode_value(cfg.mode)[3], 0, 0, 0>>

\* driver.py:1040-1043  the loop over the enumeration: the last member whose
\* value is the triple read, "" when there is none
spi_config_mode(standard, cpha, cpol) ==
    LET hits == {i \in DOMAIN CySPIMode :
                    CySPIMode_value(CySPIMode[i]) = <<standard, cpha, cpol>>}
    IN IF hits = {} THEN ""
       ELSE CySPIMode[CHOOSE i \in hits : \A j \in hits : j <= i]

\* driver.py:1034-1060  what read_spi_configuration makes of the 16 bytes
spi_config_unpack(b) ==
    LET spi_mode == spi_config_mode(b[6], b[12], b[13]) IN
    IF spi_mode = ""
    THEN [result |-> "CySerialBridgeError", config |-> NoSpiConfig]
    ELSE [result |-> "ok",
          config |-> [frequency |-> unpack_I(b), word_size |-> b[5], mode |-> spi_mode,
                      msbit_first |-> b[8] /= 0, continuous_ssel |-> b[10] /= 0,
                      ti_select_precede |-> b[11] /= 0]]

\* driver.py:978-1019  set_spi_configuration: checked first, cached second, then
\* the packed configuration is written to the device
set_spi_configuration_of(d, configs) ==
    /\ KindOf(d) = "SPI"
    /\ entered[d]
    /\ ~gone
    /\ \E cfg \in configs :
         IF cfg.frequency < SPI_MIN_FREQUENCY
            \/ cfg.frequency > SPI_MAX_MASTER_FREQUENCY
            \/ cfg.word_size < MIN_WORD_SIZE \/ cfg.word_size > MAX_WORD_SIZE
         THEN /\ call' = [Call("set_spi_configuration", d, "ValueError", <<>>)
                          EXCEPT !.arg.size = cfg.frequency,
                                 !.arg.addr = cfg.word_size, !.arg.cfg = cfg]
              /\ UNCHANGED <<curr_frequency, spi_config>>
         ELSE /\ call' = [Call("set_spi_configuration", d, "ok", <<"spi_set_config">>)
                          EXCEPT !.arg.size = cfg.frequency,
                                 !.arg.addr = cfg.word_size, !.arg.cfg = cfg]
              /\ curr_frequency' = [curr_frequency EXCEPT ![d] = cfg.frequency]
              /\ spi_config' = spi_config_pack(cfg)
    /\ UNCHANGED <<sessionVars, gone, i2cErr, user_flash>>
    /\ UNCHANGED mgmtVars

\* set_spi_configuration with the default mode and flags
set_spi_configuration(d) == set_spi_configuration_of(d, SpiConfigsDefault)

\* driver.py:1021-1060  read_spi_configuration
read_spi_configuration(d) ==
    /\ KindOf(d) = "SPI"
    /\ entered[d]
    /\ ~gone
    /\ \E r \in {spi_config_unpack(spi_config)} :
         /\ call' = [Call("read_spi_configuration", d, r.result, <<"spi_get_config">>)
                       EXCEPT !.arg.cfg = r.config]
         /\ curr_frequency' = IF r.result = "ok"
                              THEN [curr_frequency EXCEPT ![d] = r.config.frequency]
                              ELSE curr_frequency
    /\ UNCHANGED <<sessionVars, gone, i2cErr>>
    /\ UNCHANGED mgmtVars
    /\ UNCHANGED storeVars

\* driver.py:1070-1072, 1127-1129, 1178-1180  the eager check of the SPI transfers
spi_usage_fault(frequency) == IF frequency = None THEN "UsageError" ELSE "ok"

\* driver.py:943-948  _compute_timeout, in ms
Ceil(a, b) == (a + b - 1) \div b

spi_compute_timeout(transaction_size_bytes, frequency) ==
    1000 + Ceil(1000 * transaction_size_bytes * 9, frequency)

\* driver.py:1074-1075, 1131-1132, 1182-1183
spi_io_timeout(io_timeout, size, frequency) ==
    IF io_timeout = None THEN spi_compute_timeout(size, frequency) ELSE io_timeout

\* driver.py:1097, 1223, 1247  the deadline test: time.time() counts seconds
\* and io_timeout is added to it as it is; elapsed is in ms
spi_deadline_passed(elapsed, io_timeout) == elapsed > io_timeout * 1000

\* driver.py:1094-1099 and 1244-1249  the completion poll, from status poll i
\* on: the number of busy answers received and whether the deadline tripped
RECURSIVE spi_wait_write_done_loop(_, _, _, _)
spi_wait_write_done_loop(polls, i, elapsed, io_timeout) ==
    IF i > Len(polls)
    THEN [busy |-> Len(polls), expired |-> FALSE]
    ELSE IF spi_deadline_passed(elapsed + polls[i], io_timeout)
    THEN [busy |-> i, expired |-> TRUE]
    ELSE spi_wait_write_done_loop(polls, i + 1, elapsed + polls[i], io_timeout)

spi_wait_write_done_once(polls, elapsed, io_timeout) ==
    [result |-> "ok", busy |-> 0, expired |-> FALSE, usb |-> <<"spi_status">>]

\* the status polls issued and how the loop ends
spi_wait_write_done(polls, elapsed, io_timeout) ==
    LET ended(w) ==
            IF w.expired
            THEN [result |-> "SpiPollTimeout", busy |-> w.busy, expired |-> TRUE,
                  usb |-> [i \in 1..w.busy |-> "spi_status"]]
            ELSE [result |-> "ok", busy |-> w.busy, expired |-> FALSE,
                  usb |-> [i \in 1..(w.busy + 1) |-> "spi_status"]]
    IN ended(spi_wait_write_done_loop(polls, 1, elapsed, io_timeout))

\* driver.py:1101-1111  the exception handlers of spi_write
spi_write_handler(result) ==
    IF result = "USBErrorPipe" THEN <<"spi_reset", "clearHalt_out">>
    ELSE IF result = "USBErrorTimeout" THEN <<"spi_reset">>
    ELSE <<>>

\* driver.py:1159-1162 and 1253-1256  the exception handler of spi_read and
\* of spi_transfer
spi_except_handler(result) == IF result /= "ok" THEN <<"spi_reset">> ELSE <<>>

\* the exception a failed blocking bulk transfer raises
BulkError(b) ==
    CASE b = "pipe" -> "USBErrorPipe"
      [] b = "timeout" -> "USBErrorTimeout"
      [] b = "io" -> "USBError"
      [] OTHER -> "ok"

\* driver.py:1077-1111  spi_write once its arguments are accepted
spi_write_transfer(ans, io_timeout) ==
    LET setup == <<"spi_setup_W", "bulkWrite">>
        handled(body) ==
            [body EXCEPT !.usb = @ \o spi_write_handler(body.result)]
        polled(w) ==
            [result |-> w.result, usb |-> setup \o w.usb,
             busy |-> w.busy, expired |-> w.expired]
    IN IF BulkError(ans.bulk) /= "ok"
       THEN handled([result |-> BulkError(ans.bulk), usb |-> setup,
                     busy |-> 0, expired |-> FALSE])
       ELSE handled(polled(spi_wait_write_done(ans.polls, ans.wait, io_timeout)))

\* driver.py:1153-1155  the length check of spi_read
spi_read_check(bulk) == IF bulk = "short" THEN "SpiShortRead" ELSE "ok"

\* driver.py:1134-1162  spi_read once its arguments are accepted
spi_read_transfer(ans) ==
    LET setup == <<"spi_setup_R", "bulkRead">>
        result == IF BulkError(ans.bulk) /= "ok" THEN BulkError(ans.bulk)
                  ELSE spi_read_check(ans.bulk)
    IN [result |-> result, usb |-> setup \o spi_except_handler(result)]

\* driver.py:1238-1240  the length check of spi_transfer
spi_transfer_check(actual, n) == IF actual /= n THEN "SpiShortRead" ELSE "ok"

spi_transfer_submit_in_turn == <<"submit_tx", "handleEvents", "submit_rx", "handleEvents">>

\* driver.py:1197-1223  both asynchronous bulk transfers are submitted, then
\* the USB event loop is driven until neither is still submitted
spi_transfer_submit == <<"submit_tx", "submit_rx", "handleEvents">>

\* driver.py:1185-1256  spi_transfer of n bytes once its arguments are accepted
spi_transfer_transfer(ans, n, io_timeout) ==
    LET setup == <<"spi_setup_RW">> \o spi_transfer_submit
        halt == IF ans.tx = "stall" THEN <<"clearHalt_out">> ELSE <<>>
        handled(body) ==
            [body EXCEPT !.usb = @ \o spi_except_handler(body.result)]
        failed(result, usb) ==
            handled([result |-> result, usb |-> usb, busy |-> 0, expired |-> FALSE])
        polled(w) ==
            [result |-> w.result, usb |-> setup \o w.usb,
             busy |-> w.busy, expired |-> w.expired]
    IN IF spi_deadline_passed(ans.wait, io_timeout)
       THEN failed("USBErrorTimeout", setup)
       ELSE IF ans.tx /= "completed"
       THEN failed("SpiTxFailed", setup \o halt)
       ELSE IF ans.rx /= "completed"
       THEN failed("SpiRxFailed", setup)
       ELSE IF spi_transfer_check(ans.actual, n) /= "ok"
       THEN failed(spi_transfer_check(ans.actual, n), setup)
       ELSE handled(polled(spi_wait_write_done(ans.polls, ans.wait, io_timeout)))

\* driver.py:1062-1111  CySPIControllerBridge.spi_write
spi_write_of(d, inputs) ==
    /\ KindOf(d) = "SPI"
    /\ entered[d]
    /\ ~gone
    /\ \E n \in inputs.lengths :
         LET usage == spi_usage_fault(curr_frequency[d])
             c == [Call("spi_write", d, usage, <<>>) EXCEPT !.arg.size = n]
         IN
         IF usage /= "ok"
         THEN call' = c
         ELSE \E ans \in SpiBulkAnswers, io_timeout \in inputs.timeouts :
                /\ ans.polls \in inputs.polls
                /\ ans.bulk /= "short"
                \* a bulk transfer given timeout 0 never times out
                /\ ans.bulk = "timeout" => io_timeout /= 0
                /\ \E r \in {spi_write_transfer(ans,
                                 spi_io_timeout(io_timeout, n, curr_frequency[d]))} :
                     call' = [c EXCEPT !.result = r.result, !.usb = r.usb,
                                       !.arg.in = ans.bulk,
                                       !.arg.io_timeout = io_timeout,
                                       !.arg.spi.wait = ans.wait,
                                       !.arg.spi.polls = ans.polls,
                                       !.arg.spi.busy = r.busy,
                                       !.arg.spi.expired = r.expired]
    /\ UNCHANGED <<sessionVars, curr_frequency, gone, i2cErr>>
    /\ UNCHANGED mgmtVars
    /\ UNCHANGED storeVars

\* driver.py:1113-1162  CySPIControllerBridge.spi_read
spi_read_of(d, inputs) ==
    /\ KindOf(d) = "SPI"
    /\ entered[d]
    /\ ~gone
    /\ \E n \in inputs.lengths :
         LET usage == spi_usage_fault(curr_frequency[d])
             c == [Call("spi_read", d, usage, <<>>) EXCEPT !.arg.size = n]
         IN
         IF usage /= "ok"
         THEN call' = c
         ELSE \E ans \in SpiBulkAnswers, io_timeout \in inputs.timeouts :
                /\ ans.polls \in inputs.polls
                /\ ans.polls = <<>>
                /\ ans.wait = 0
                /\ ans.bulk = "timeout" => io_timeout /= 0
                /\ LET r == spi_read_transfer(ans) IN
                   call' = [c EXCEPT !.result = r.result, !.usb = r.usb,
                                     !.arg.in = ans.bulk,
                                     !.arg.io_timeout = io_timeout]
    /\ UNCHANGED <<sessionVars, curr_frequency, gone, i2cErr>>
    /\ UNCHANGED mgmtVars
    /\ UNCHANGED storeVars

\* driver.py:1164-1256  CySPIControllerBridge.spi_transfer
spi_transfer_of(d, inputs) ==
    /\ KindOf(d) = "SPI"
    /\ entered[d]
    /\ ~gone
    /\ \E n \in inputs.lengths :
         LET usage == spi_usage_fault(curr_frequency[d])
             c == [Call("spi_transfer", d, usage, <<>>) EXCEPT !.arg.size = n]
         IN
         IF usage /= "ok"
         THEN call' = c
         ELSE \E ans \in SpiTransferAnswers(n), io_timeout \in inputs.timeouts :
                /\ ans.polls \in inputs.polls
                \* the event loop is left with a transfer still submitted
                \* only through its deadline test
                /\ (ans.tx = "pending" \/ ans.rx = "pending") =>
                      spi_deadline_passed(ans.wait,
                          spi_io_timeout(io_timeout, n, curr_frequency[d]))
                /\ \E r \in {spi_transfer_transfer(ans, n,
                                 spi_io_timeout(io_timeout, n, curr_frequency[d]))} :
                     call' = [c EXCEPT !.result = r.result, !.usb = r.usb,
                                       !.arg.io_timeout = io_timeout,
                                       !.arg.spi = [tx |-> ans.tx, rx |-> ans.rx,
                                                    actual |-> ans.actual,
                                                    wait |-> ans.wait,
                                                    polls |-> ans.polls,
                                                    busy |-> r.busy,
                                                    expired |-> r.expired]]
    /\ UNCHANGED <<sessionVars, curr_frequency, gone, i2cErr>>
    /\ UNCHANGED mgmtVars
    /\ UNCHANGED storeVars

\* what the callers pass and the transport answers, all of it
TransferInputs ==
    [addrs |-> I2cAddrs, sizes |-> Sizes, i2c |-> I2cAnswers, lengths |-> Lengths,
     polls |-> PollAnswers, timeouts |-> IoTimeouts]

i2c_read(d) == i2c_read_of(d, TransferInputs)
i2c_write(d) == i2c_write_of(d, TransferInputs)
spi_write(d) == spi_write_of(d, TransferInputs)
spi_read(d) == spi_read_of(d, TransferInputs)
spi_transfer(d) == spi_transfer_of(d, TransferInputs)

\* -------------------------------------------------------------- user flash

\* usb_constants.py:25-26
USER_FLASH_PAGE_SIZE == 128
USER_FLASH_SIZE == 512

\* the addresses and lengths a caller passes, in bytes
FlashAddrs == {0 - USER_FLASH_PAGE_SIZE, 0, 64, 128, 256, 384, 512}
FlashLens == {0, 64, 128, 256, 384, 512, 640}

\* A buffer, by its length in bytes and the content of each whole page of it;
\* the pages of one buffer differ from their neighbours.
PagePatterns == {<<1, 2, 1, 2, 1>>, <<2, 1, 2, 1, 2>>}
FlashBuffers ==
    {[len |-> n, pages |-> SubSeq(p, 1, n \div USER_FLASH_PAGE_SIZE)] :
        n \in FlashLens, p \in PagePatterns}

\* the page at which a control transfer of the call fails, 0 for none
FlashFaults == 0..2

user_flash_check_aligned_only(addr, len) ==
    IF addr % USER_FLASH_PAGE_SIZE /= 0 \/ len % USER_FLASH_PAGE_SIZE /= 0 \/ len = 0
    THEN "ValueError"
    ELSE "ok"

\* driver.py:316-321, 345-350  the checks both user flash calls start with
user_flash_check(addr, len) ==
    IF addr % USER_FLASH_PAGE_SIZE /= 0 \/ len % USER_FLASH_PAGE_SIZE /= 0 \/ len = 0
    THEN "ValueError"
    ELSE IF addr < 0 \/ len + addr > USER_FLASH_SIZE THEN "ValueError"
    ELSE "ok"

user_flash_index_of_first(addr, page_idx) == addr

\* driver.py:325, 331, 360  the wIndex of the transfer for page page_idx
user_flash_index(addr, page_idx) == addr + page_idx * USER_FLASH_PAGE_SIZE

\* the device: the page a wIndex names, and the flash after one page is
\* programmed there; a wIndex outside the flash changes nothing
flash_page(index) == index \div USER_FLASH_PAGE_SIZE

flash_programmed(flash, index, content) ==
    IF flash_page(index) \in FlashPages
    THEN [flash EXCEPT ![flash_page(index)] = content]
    ELSE flash

\* driver.py:323-334  the loop of program_user_flash, from page page_idx on;
\* the transfer for page number fault (counted from 1) fails
RECURSIVE program_user_flash_loop(_, _, _, _, _, _)
program_user_flash_loop(addr, pages, page_idx, fault, flash, usb) ==
    IF page_idx >= Len(pages) THEN [result |-> "ok", flash |-> flash, usb |-> usb]
    ELSE IF fault = page_idx + 1
    THEN [result |-> "USBError", flash |-> flash, usb |-> Append(usb, "prog_user_flash")]
    ELSE program_user_flash_loop(addr, pages, page_idx + 1, fault,
             flash_programmed(flash, user_flash_index(addr, page_idx), pages[page_idx + 1]),
             Append(usb, "prog_user_flash"))

\* driver.py:354-366  the loop of read_user_flash
RECURSIVE read_user_flash_loop(_, _, _, _, _, _)
read_user_flash_loop(addr, num_pages, page_idx, fault, result_bytes, usb) ==
    IF page_idx >= num_pages THEN [result |-> "ok", data |-> result_bytes, usb |-> usb]
    ELSE IF fault = page_idx + 1
    THEN [result |-> "USBError", data |-> <<>>, usb |-> Append(usb, "read_user_flash")]
    ELSE read_user_flash_loop(addr, num_pages, page_idx + 1, fault,
             Append(result_bytes,
                    IF flash_page(user_flash_index(addr, page_idx)) \in FlashPages
                    THEN user_flash[flash_page(user_flash_index(addr, page_idx))]
                    ELSE ErasedPage),
             Append(usb, "read_user_flash"))

\* driver.py:306-334  CySerBridgeBase.program_user_flash
program_user_flash(d) ==
    /\ entered[d]
    /\ ~gone
    /\ \E addr \in FlashAddrs, buff \in FlashBuffers, fault \in FlashFaults :
       \E r \in {IF user_flash_check(addr, buff.len) /= "ok"
                 THEN [result |-> "ValueError", flash |-> user_flash, usb |-> <<>>]
                 ELSE program_user_flash_loop(addr, buff.pages, 0, fault, user_flash,
                                              <<>>)} :
         /\ call' = [Call("program_user_flash", d, r.result, r.usb)
                       EXCEPT !.arg.addr = addr, !.arg.size = buff.len,
                              !.arg.data = buff.pages]
         /\ user_flash' = r.flash
    /\ UNCHANGED <<sessionVars, curr_frequency, gone, i2cErr, spi_config>>
    /\ UNCHANGED mgmtVars

\* driver.py:336-366  CySerBridgeBase.read_user_flash
read_user_flash(d) ==
    /\ entered[d]
    /\ ~gone
    /\ \E addr \in FlashAddrs, size \in FlashLens, fault \in FlashFaults :
       \E r \in {IF user_flash_check(addr, size) /= "ok"
                 THEN [result |-> "ValueError", data |-> <<>>, usb |-> <<>>]
                 ELSE read_user_flash_loop(addr, size \div USER_FLASH_PAGE_SIZE, 0, fault,
                                           <<>>, <<>>)} :
         call' = [Call("read_user_flash", d, r.result, r.usb)
                    EXCEPT !.arg.addr = addr, !.arg.size = size, !.arg.data = r.data]
    /\ UNCHANGED <<sessionVars, curr_frequency, gone, i2cErr>>
    /\ UNCHANGED mgmtVars
    /\ UNCHANGED storeVars

\* ------------------------------------------------------------ mode change

\* the manufacturing-interface driver
MfgDriver == CHOOSE d \in Drivers : KindOf(d) = "MFG"

\* the type bytes (0x1C, 0x1D) a stored block may hold: SPI, I2C, UART_CDC,
\* and a pair the getter cannot decode
TypeBytes == {<<CyType_SPI, 3>>, <<CyType_I2C, 3>>, <<CyType_UART_VENDOR, 1>>, <<0, 0>>}
Pids == {DEFAULT_PID, DEFAULT_PID + 1}

GoodBlocks ==
    {config_bytes([FactoryBlock EXCEPT !.b1C = t[1], !.b1D = t[2],
                                       !.settings = st, !.pid = p]) :
        t \in TypeBytes, st \in {settings_SPI, settings_other}, p \in Pids}
    \cup {config_bytes([FactoryBlock EXCEPT !.rest = <<Half - 1, Half - 1>>])}

\* blocks the constructor rejects: short, wrong magic, unknown major version,
\* stale checksum
BadBlocks ==
    {[FactoryBlock EXCEPT !.size = CY_DEVICE_CONFIG_SIZE - 1],
     [FactoryBlock EXCEPT !.magic = "CYBL"],
     [FactoryBlock EXCEPT !.major = 3],
     [FactoryBlock EXCEPT !.checksum = <<0, 0>>]}

Blocks == GoodBlocks \cup BadBlocks

\* what the transport answers during one change_type: the control transfer
\* that fails (if any), and whether the disconnect of the handler fails
ChangeFaults == {"none", "connect", "read_config", "write_config", "disconnect"}
ChangeAnswers == [fault : ChangeFaults, cleanup : {"ok", "fail"}]

change_type_pid_keep(pid, new_type) == pid

\* driver.py:493-498  the PID is made odd for UART_CDC and even otherwise
change_type_pid(pid, new_type) ==
    IF pid % 2 = 0 /\ new_type = CyType_UART_CDC THEN pid + 1
    ELSE IF pid % 2 = 1 /\ new_type /= CyType_UART_CDC THEN pid - 1
    ELSE pid

change_type_settings_swapped(new_type) ==
    IF new_type = CyType_SPI THEN settings_other ELSE settings_SPI

\* driver.py:500-509  the settings region written for the new type
change_type_settings(new_type) ==
    IF new_type = CyType_SPI THEN settings_SPI ELSE settings_other

change_type_block_stale_checksum(b, new_type) ==
    LET typed == device_type_set(b, new_type)
        pidded == [typed EXCEPT !.pid = change_type_pid(typed.pid, new_type)]
    IN [pidded EXCEPT !.settings = change_type_settings(new_type)]

\* driver.py:490-513  the block change_type builds from the one it read
change_type_block(b, new_type) ==
    LET typed == device_type_set(b, new_type)
        pidded == [typed EXCEPT !.pid = change_type_pid(typed.pid, new_type)]
    IN config_bytes([pidded EXCEPT !.settings = change_type_settings(new_type)])

change_type_handler_none == <<>>

\* driver.py:519-521  the except handler: one disconnect, then re-raise
change_type_handler == <<"mfg_disconnect">>

change_type_try_write_first(stored, new_type, fault) ==
    [result |-> "ok", usb |-> <<"write_config", "read_config", "mfg_disconnect">>,
     wrote |-> TRUE, block |-> change_type_block(stored, new_type), failed |-> "none"]

\* driver.py:484-517  the try block of change_type: result, USB calls issued,
\* the block written if the write went through, and the step that failed
change_type_try(stored, new_type, fault) ==
    LET no(result, usb, step) == [result |-> result, usb |-> usb, wrote |-> FALSE,
                                  block |-> NoBlock, failed |-> step]
        decoded(init, str) ==
            IF fault = "read_config" THEN no("USBError", <<"read_config">>, "read_config")
            ELSE IF init /= "ok" THEN no(init, <<"read_config">>, "decode")
            ELSE IF str /= "ok" THEN no(str, <<"read_config">>, "decode")
            ELSE IF fault = "write_config"
            THEN no("USBError", <<"read_config", "write_config">>, "write_config")
            ELSE [result |-> IF fault = "disconnect" THEN "USBError" ELSE "ok",
                  usb |-> <<"read_config", "write_config", "mfg_disconnect">>,
                  wrote |-> TRUE, block |-> change_type_block(stored, new_type),
                  failed |-> IF fault = "disconnect" THEN "disconnect" ELSE "none"]
    IN decoded(ConfigurationBlock_init(stored), ConfigurationBlock_str(stored))

\* driver.py:475-521  change_type
CyMfgrIface_change_type(stored, new_type, ans) ==
    IF ans.fault = "connect"
    THEN [result |-> "USBError", usb |-> <<"mfg_connect">>, wrote |-> FALSE,
          block |-> NoBlock, failed |-> "connect"]
    ELSE LET tried(t) ==
                 IF t.result = "ok"
                 THEN [t EXCEPT !.usb = <<"mfg_connect">> \o @]
                 ELSE [t EXCEPT !.usb = <<"mfg_connect">> \o @ \o change_type_handler,
                                !.result = IF ans.cleanup = "fail" THEN "USBError" ELSE @]
         IN tried(change_type_try(stored, new_type, ans.fault))

\* the record of a mode-change call
MfgCall(op, d, new_type, r) ==
    [Call(op, d, r.result, r.usb) EXCEPT
        !.arg.mfg = [new_type |-> new_type, read |-> config, wrote |-> r.wrote,
                     block |-> r.block, fault |-> r.failed]]

\* driver.py:475-521  CyMfgrIface.change_type on an open session
change_type(d) ==
    /\ KindOf(d) = "MFG"
    /\ entered[d]
    /\ ~gone
    /\ \E new_type \in CyTypes, ans \in ChangeAnswers :
         \E r \in {CyMfgrIface_change_type(config, new_type, ans)} :
            /\ call' = MfgCall("change_type", d, new_type, r)
            /\ config' = IF r.wrote THEN r.block ELSE config
    /\ UNCHANGED <<sessionVars, curr_frequency, gone, i2cErr, attached>>
    /\ UNCHANGED storeVars

\* ---------------------------------------------------- scan and open_device

MaxScans == 2        \* re-scans open_device makes before its deadline has passed

\* cy_scb_context.py:30-36  OpenMode
OpenModes == {"I2C_CONTROLLER", "SPI_CONTROLLER", "MFGR_INTERFACE", "UART_CDC"}

\* cy_scb_context.py:30-36  the CyType an open mode needs, None for any
needed_cytype(open_mode) ==
    CASE open_mode = "I2C_CONTROLLER" -> CyType_I2C
      [] open_mode = "SPI_CONTROLLER" -> CyType_SPI
      [] open_mode = "UART_CDC" -> CyType_UART_CDC
      [] OTHER -> None

\* cy_scb_context.py:30-36  the driver class an open mode returns
driver_class(open_mode) ==
    CASE open_mode = "I2C_CONTROLLER" -> "CyI2CControllerBridge"
      [] open_mode = "SPI_CONTROLLER" -> "CySPIControllerBridge"
      [] open_mode = "UART_CDC" -> "Serial"
      [] OTHER -> "CyMfgrIface"

scan_for_device_select_any(devices, open_mode, serial_number) ==
    IF Len(devices) = 0 THEN [exc |-> "CySerialBridgeError", device |-> NoDevice]
    ELSE [exc |-> "none", device |-> devices[1]]

\* cy_scb_context.py:278-333  what scan_for_device does with the list that
\* list_devices returned: the exception raised, or the one device found.  The
\* empty string is the serial number None.
scan_for_device_select(devices, open_mode, serial_number) ==
    LET error == [exc |-> "CySerialBridgeError", device |-> NoDevice]
        found(dv) ==
            IF open_mode = "UART_CDC" /\ dv.curr_cytype = CyType_UART_CDC
                 /\ dv.serial_port_name = ""
            THEN error ELSE [exc |-> "none", device |-> dv]
        matches == {i \in DOMAIN devices : /\ ~devices[i].open_failed
                                           /\ devices[i].serial_number = serial_number}
        first(among) == devices[CHOOSE i \in among : \A j \in among : i <= j]
    IN
    IF Len(devices) = 0 THEN error
    ELSE IF Len(devices) = 1
    THEN (IF devices[1].open_failed THEN error
          ELSE IF serial_number /= "" /\ devices[1].serial_number /= serial_number
          THEN error
          ELSE found(devices[1]))
    ELSE IF serial_number = "" THEN error
    ELSE IF matches = {} THEN error
    ELSE found(first(matches))

\* cy_scb_context.py:255-333  CyScbContext.scan_for_device: the exception
\* raised, or the one device found
CyScbContext_scan_for_device(devs, vid, pids, open_mode, serial_number) ==
    LET scanned(l) ==
            IF l.exc /= "none" THEN [exc |-> l.exc, device |-> NoDevice]
            ELSE scan_for_device_select(l.list, open_mode, serial_number)
    IN scanned(CyScbContext_list_devices(devs, [all |-> FALSE,
                                                set |-> {<<vid, q>> : q \in pids}]))

\* cy_scb_context.py:364  the test that starts a mode change
open_device_must_change(needed, curr_cytype) == needed /= None /\ curr_cytype /= needed

mode_change_reset_again(result) ==
    IF result = "ok" THEN <<"device_reset", "device_reset">> ELSE <<>>

\* cy_scb_context.py:372-373 (and cli.py:310-314)  reset_device follows
\* change_type inside the with statement, once, and only if change_type returned
mode_change_reset(result) == IF result = "ok" THEN <<"device_reset">> ELSE <<>>

\* cy_scb_context.py:370-373 (and cli.py:306-314)  a manufacturing session
\* that changes the type and then resets the device: __enter__, change_type,
\* reset_device unless change_type raised, then __exit__ of the with statement.
\* after holds the session fields the run leaves behind.
mode_change_session(new_type, ea, ca) ==
    LET session(e, c, released) ==
            LET reset == mode_change_reset(c.result)
                leave == released \o <<"close">>
                kept == [guard |-> e.guard, dev |-> e.dev, claimed |-> e.claimed,
                         stack |-> e.stack]
            IN
            IF e.result /= "ok"
            THEN [result |-> e.result, usb |-> e.usb, after |-> kept, change |-> NoMfg,
                  wrote |-> FALSE, block |-> NoBlock, reset |-> FALSE]
            ELSE [result |-> c.result, usb |-> e.usb \o c.usb \o reset \o leave,
                  after |-> [guard |-> FALSE, dev |-> FALSE,
                             claimed |-> IF released /= <<>> THEN FALSE ELSE e.claimed,
                             stack |-> FALSE],
                  change |-> [new_type |-> new_type, read |-> config, wrote |-> c.wrote,
                              block |-> c.block, fault |-> c.failed],
                  wrote |-> c.wrote, block |-> c.block, reset |-> c.result = "ok"]
    IN session(CySerBridgeBase_enter(MfgDriver, ea[1], ea[2]),
               CyMfgrIface_change_type(config, new_type, ca),
               exit_stack_pop_all(MfgDriver))

\* cy_scb_context.py:375-400  the loop that waits for the device to come back.
\* Scan number i ends as scanned[i] tells; from scan number late on, the clock
\* has passed change_type_start_time + CHANGE_TYPE_TIMEOUT.
RECURSIVE open_device_rescan(_, _, _, _, _)
open_device_rescan(i, late, scanned, device_to_open, needed) ==
    LET expired == i >= late
        rescanned(r) ==
            LET now == IF r.exc = "none" THEN r.device ELSE device_to_open IN
            IF r.exc = "none" /\ r.device.curr_cytype = needed
            THEN [result |-> "ok", device |-> r.device, scans |-> i]
            ELSE IF r.exc /= "none" /\ expired
            THEN [result |-> "TimeoutWaiting", device |-> now, scans |-> i]
            ELSE IF expired /\ now.curr_cytype /= needed
            THEN [result |-> "TypeDidNotChange", device |-> now, scans |-> i]
            ELSE open_device_rescan(i + 1, late, scanned, now, needed)
    IN rescanned(scanned[i])

\* cy_scb_context.py:402-412  the driver object open_device returns
open_device_instantiate(open_mode, device_to_open) ==
    IF open_mode = "UART_CDC" /\ device_to_open.serial_port_name = ""
    THEN [result |-> "CySerialBridgeError", returned |-> ""]
    ELSE [result |-> "ok", returned |-> driver_class(open_mode)]

\* the serial numbers a caller may ask for, "" for None
SerialNumbers == {"", "A", "B"}

\* the record of a discovery call
ScanCall(op, result, usb, scan) ==
    [Call(op, MfgDriver, result, usb) EXCEPT !.arg.scan = scan]

\* the filters a caller passes: None, the default pair, the default pair
\* with the odd product id, a pair of another vendor
Filters ==
    {NoFilter,
     [all |-> FALSE, set |-> {<<DEFAULT_VID, DEFAULT_PID>>}],
     [all |-> FALSE, set |-> {<<DEFAULT_VID, DEFAULT_PID + 1>>}],
     [all |-> FALSE, set |-> {<<DEFAULT_VID + 1, DEFAULT_PID + 1>>}]}

\* cy_scb_context.py:132-249  CyScbContext.list_devices
list_devices ==
    /\ \E vid_pids \in Filters :
       \E l \in {CyScbContext_list_devices(attached, vid_pids)} :
         call' = ScanCall("list_devices", IF l.exc = "none" THEN "ok" ELSE l.exc, <<>>,
                          [NoScan EXCEPT !.exc = l.exc, !.list = l.list,
                                         !.mode = IF vid_pids.all THEN "all" ELSE "default",
                                         !.filter = vid_pids,
                                         !.considered = l.considered])
    /\ UNCHANGED <<sessionVars, curr_frequency, gone, i2cErr, mgmtVars>>
    /\ UNCHANGED storeVars

\* the session fields a manufacturing session inside open_device leaves behind
SessionAfter(after) ==
    /\ has_opened_driver' = after.guard
    /\ dev' = [dev EXCEPT ![MfgDriver] = after.dev]
    /\ claimed' = [claimed EXCEPT ![MfgDriver] = after.claimed]
    /\ exit_stack' = [exit_stack EXCEPT ![MfgDriver] = after.stack]
    /\ UNCHANGED entered

\* cy_scb_context.py:362-412  open_device from the first scan on: first is
\* what that scan ended with, Rescans the ways the scans of the waiting loop
\* may end
open_device_opened(first, open_mode, serial_number, Rescans) ==
    LET needed == needed_cytype(open_mode)
        scan == [NoScan EXCEPT !.mode = open_mode, !.serial = serial_number,
                               !.exc = first.exc, !.device = first.device,
                               !.scans = 1]
    IN
    IF first.exc /= "none"
    THEN /\ call' = ScanCall("open_device", first.exc, <<>>, scan)
         /\ UNCHANGED <<sessionVars, gone, config>>
    ELSE IF ~open_device_must_change(needed, first.device.curr_cytype)
    THEN \E o \in {open_device_instantiate(open_mode, first.device)} :
         /\ call' = ScanCall("open_device", o.result, <<>>,
                             [scan EXCEPT !.returned = o.returned])
         /\ UNCHANGED <<sessionVars, gone, config>>
    ELSE \E m \in {mode_change_session(needed, ea, ca) :
                       ea \in EnterAnswers, ca \in ChangeAnswers} :
           /\ SessionAfter(m.after)
           /\ config' = IF m.wrote THEN m.block ELSE config
           /\ gone' = m.reset
           /\ IF m.result /= "ok"
              THEN call' = [ScanCall("open_device", m.result, m.usb, scan)
                              EXCEPT !.arg.mfg = m.change]
              ELSE \E w \in {open_device_rescan(1, late, scanned, first.device,
                                                needed) :
                                 late \in 1..MaxScans, scanned \in Rescans} :
                   \E o \in {open_device_instantiate(open_mode, w.device)} :
                     call' = [ScanCall("open_device",
                                       IF w.result = "ok" THEN o.result ELSE w.result,
                                       m.usb,
                                       [scan EXCEPT !.device = w.device,
                                                    !.scans = 1 + w.scans,
                                                    !.returned = IF w.result = "ok"
                                                                 THEN o.returned
                                                                 ELSE ""])
                                EXCEPT !.arg.mfg = m.change]

\* cy_scb_context.py:335-412  CyScbContext.open_device
open_device ==
    /\ ~gone
    /\ \E open_mode \in OpenModes, serial_number \in SerialNumbers :
       \E first \in {CyScbContext_scan_for_device(attached, DEFAULT_VID, {DEFAULT_PID},
                                                  open_mode, serial_number)} :
         open_device_opened(first, open_mode, serial_number,
             {[i \in 1..MaxScans |->
                 CyScbContext_scan_for_device(seen[i], DEFAULT_VID, {DEFAULT_PID},
                                              open_mode, serial_number)] :
                 seen \in [1..MaxScans -> Buses]})
    /\ UNCHANGED <<curr_frequency, i2cErr, attached>>
    /\ UNCHANGED storeVars

\* cli.py:273-314  the change-type command: MFG is refused, the modes the
\* library cannot use ask for confirmation, then the device is opened as
\* MFGR_INTERFACE, its type changed and the device reset
cli_change_type ==
    /\ ~gone
    /\ \E cy_type \in CyTypes, confirm \in BOOLEAN, serial_number \in SerialNumbers :
       \E first \in {CyScbContext_scan_for_device(attached, DEFAULT_VID, {DEFAULT_PID},
                                                  "MFGR_INTERFACE", serial_number)} :
         LET scan == [NoScan EXCEPT !.mode = "MFGR_INTERFACE", !.serial = serial_number,
                                    !.exc = first.exc, !.device = first.device,
                                    !.scans = 1]
             asked == [NoMfg EXCEPT !.new_type = cy_type]
         IN
         IF cy_type = CyType_MFG
         THEN /\ call' = [ScanCall("cli_change_type", "BadParameter", <<>>, NoScan)
                            EXCEPT !.arg.mfg = asked]
              /\ UNCHANGED <<sessionVars, gone, config>>
         ELSE IF cy_type \in {CyType_UART_VENDOR, CyType_UART_PHDC, CyType_JTAG} /\ ~confirm
         THEN /\ call' = [ScanCall("cli_change_type", "Abort", <<>>, NoScan)
                            EXCEPT !.arg.mfg = asked]
              /\ UNCHANGED <<sessionVars, gone, config>>
         ELSE IF first.exc /= "none"
         THEN /\ call' = [ScanCall("cli_change_type", first.exc, <<>>, scan)
                            EXCEPT !.arg.mfg = asked]
              /\ UNCHANGED <<sessionVars, gone, config>>
         ELSE \E ea \in EnterAnswers, ca \in ChangeAnswers :
              \E m \in {mode_change_session(cy_type, ea, ca)} :
                /\ SessionAfter(m.after)
                /\ config' = IF m.wrote THEN m.block ELSE config
                /\ gone' = m.reset
                /\ call' = [ScanCall("cli_change_type", m.result, m.usb,
                                     [scan EXCEPT !.returned = "CyMfgrIface"])
                              EXCEPT !.arg.mfg = IF m.change = NoMfg THEN asked
                                                 ELSE m.change]
    /\ UNCHANGED <<curr_frequency, i2cErr, attached>>
    /\ UNCHANGED storeVars

\* cy_scb_context.py:215-247  the list entries list_devices builds: a bridge
\* in I2C mode, in SPI mode, in UART_CDC mode with and without a serial port
\* found for it, and a bridge that could not be opened
Discovered ==
    LET scb == [scb |-> TRUE, cdc |-> FALSE]
        cdc == [scb |-> FALSE, cdc |-> TRUE]
    IN {DiscoveredDevice(I2cBridge, scb, CyType_I2C),
        DiscoveredDevice(SpiBridge, scb, CyType_SPI),
        DiscoveredDevice(CdcBridge, cdc, CyType_UART_CDC),
        DiscoveredDevice([CdcBridge EXCEPT !.port = "", !.serial = "B"], cdc,
                         CyType_UART_CDC),
        DiscoveredDevice([I2cBridge EXCEPT !.openable = FALSE], scb, CyType_I2C)}

\* the lists scan_for_device may get from list_devices
DeviceLists == UNION {[1..n -> Discovered] : n \in 0..MaxDevices}

\* cy_scb_context.py:278-333  scan_for_device from line 278 on, for the list
\* held in call.arg.scan.list
scan_for_device_select_step ==
    /\ \E open_mode \in OpenModes, serial_number \in SerialNumbers :
       \E r \in {scan_for_device_select(call.arg.scan.list, open_mode, serial_number)} :
         call' = ScanCall("scan_for_device",
                          IF r.exc = "none" THEN "ok" ELSE r.exc, <<>>,
                          [NoScan EXCEPT !.list = call.arg.scan.list,
                                         !.mode = open_mode, !.serial = serial_number,
                                         !.exc = r.exc, !.device = r.device])
    /\ UNCHANGED <<sessionVars, curr_frequency, gone, i2cErr, mgmtVars>>
    /\ UNCHANGED storeVars

Next ==
    \/ \E d \in Drivers : CyMfgrIface_enter(d)
    \/ \E d \in Drivers : CyI2CControllerBridge_enter(d)
    \/ \E d \in Drivers : CySPIControllerBridge_enter(d)
    \/ \E d \in Drivers : CySerBridgeBase_exit(d)
    \/ \E d \in Drivers : reset_device(d)
    \/ Reenumerate

Spec == Init /\ [][Next]_vars

\* the I2C controller driver: session, configuration and transfers
I2cDriver == CHOOSE d \in Drivers : KindOf(d) = "I2C"

NextI2C ==
    \/ CyI2CControllerBridge_enter(I2cDriver)
    \/ CySerBridgeBase_exit(I2cDriver)
    \/ set_i2c_configuration(I2cDriver)
    \/ i2c_read(I2cDriver)
    \/ i2c_write(I2cDriver)

SpecI2C == Init /\ [][NextI2C]_vars

\* the SPI controller driver: session, configuration and transfers
SpiDriver == CHOOSE d \in Drivers : KindOf(d) = "SPI"

NextSPI ==
    \/ CySPIControllerBridge_enter(SpiDriver)
    \/ CySerBridgeBase_exit(SpiDriver)
    \/ set_spi_configuration(SpiDriver)
    \/ spi_write(SpiDriver)
    \/ spi_read(SpiDriver)
    \/ spi_transfer(SpiDriver)

SpecSPI == Init /\ [][NextSPI]_vars

\* the SPI configuration written and read back, for configurations of any kind
NextSpiConfig ==
    \/ CySPIControllerBridge_enter(SpiDriver)
    \/ CySerBridgeBase_exit(SpiDriver)
    \/ set_spi_configuration_of(SpiDriver, SpiConfigs)
    \/ read_spi_configuration(SpiDriver)

InitSpiConfig ==
    /\ InitSession
    /\ i2cErr = [m \in Modes |-> "clear"]
    /\ config = FactoryBlock
    /\ attached = FactoryBus

SpecSpiConfig == InitSpiConfig /\ [][NextSpiConfig]_vars

\* both bus drivers on the one context
SpecBus == InitSpiConfig /\ [][NextI2C \/ NextSPI]_vars

\* the manufacturing interface: a stored block of any kind, mode changes
InitMfg ==
    /\ InitSession
    /\ i2cErr = [m \in Modes |-> "clear"]
    /\ config \in Blocks
    /\ attached = FactoryBus

NextMfg ==
    \/ CyMfgrIface_enter(MfgDriver)
    \/ CySerBridgeBase_exit(MfgDriver)
    \/ change_type(MfgDriver)
    \/ reset_device(MfgDriver)
    \/ Reenumerate
    \/ open_device
    \/ cli_change_type

SpecMfg == InitMfg /\ [][NextMfg]_vars

\* discovery and open_device on a bus of any kind
InitScan ==
    /\ InitSession
    /\ i2cErr = [m \in Modes |-> "clear"]
    /\ config = FactoryBlock
    /\ attached \in Buses

NextScan ==
    \/ list_devices
    \/ open_device
    \/ cli_change_type

SpecScan == InitScan /\ [][NextScan]_vars

\* the user flash, programmed and read through the manufacturing driver
NextFlash ==
    \/ CyMfgrIface_enter(MfgDriver)
    \/ CySerBridgeBase_exit(MfgDriver)
    \/ program_user_flash(MfgDriver)
    \/ read_user_flash(MfgDriver)

SpecFlash == InitSpiConfig /\ [][NextFlash]_vars

\* a manufacturing session entered on devices with kernel drivers bound
NextDetach ==
    \/ CyMfgrIface_enter_of(MfgDriver, KernelDrivers)
    \/ CySerBridgeBase_exit(MfgDriver)

SpecDetach == InitSpiConfig /\ [][NextDetach]_vars

\* cy_scb_context.py:278-333  the ways one scan_for_device call may end, for
\* each open mode and serial number asked for, over the lists list_devices
\* may return
ScanOutcomes ==
    [open_mode \in OpenModes |->
       [serial_number \in SerialNumbers |->
          {scan_for_device_select(devices, open_mode, serial_number) :
              devices \in DeviceLists}]]

\* cy_scb_context.py:335-412  CyScbContext.open_device, its scans ending in
\* any of the ways scan_for_device may end
open_device_found(inputs) ==
    /\ ~gone
    /\ \E open_mode \in inputs.modes, serial_number \in inputs.serials :
       \E first \in ScanOutcomes[open_mode][serial_number] :
         open_device_opened(first, open_mode, serial_number,
                            [1..MaxScans -> ScanOutcomes[open_mode][serial_number]])
    /\ UNCHANGED <<curr_frequency, i2cErr, attached>>
    /\ UNCHANGED storeVars

\* the transfers that end well, time out, stall or are refused by the
\* peripheral, of the longest length; the device opened for SPI (which a
\* device of another type has to be changed for) or for manufacturing
RetryInputs ==
    [addrs |-> {MAX_VALID_ADDRESS}, sizes |-> {MaxLen},
     i2c |-> {a \in I2cAnswers : a.st \in {<<0, 0, 0>>, <<0, 3, 0>>, <<15, 3, 0>>}},
     lengths |-> {MaxLen}, polls |-> {p \in PollAnswers : Len(p) <= 1},
     timeouts |-> {None, 1},
     modes |-> {"SPI_CONTROLLER", "MFGR_INTERFACE"}, serials |-> {""}]

\* every call that issues USB transfers a caller might expect to be retried
NextRetry ==
    \/ CyI2CControllerBridge_enter(I2cDriver)
    \/ CySerBridgeBase_exit(I2cDriver)
    \/ set_i2c_configuration(I2cDriver)
    \/ i2c_read_of(I2cDriver, RetryInputs)
    \/ i2c_write_of(I2cDriver, RetryInputs)
    \/ CySPIControllerBridge_enter(SpiDriver)
    \/ CySerBridgeBase_exit(SpiDriver)
    \/ set_spi_configuration(SpiDriver)
    \/ spi_write_of(SpiDriver, RetryInputs)
    \/ spi_read_of(SpiDriver, RetryInputs)
    \/ spi_transfer_of(SpiDriver, RetryInputs)
    \/ open_device_found(RetryInputs)
    \/ Reenumerate

SpecRetry == InitSpiConfig /\ [][NextRetry]_vars

\* the choice scan_for_device makes, on a list of any kind
InitSelect ==
    /\ has_opened_driver = FALSE
    /\ entered = [d \in Drivers |-> FALSE]
    /\ dev = [d \in Drivers |-> FALSE]
    /\ claimed = [d \in Drivers |-> FALSE]
    /\ exit_stack = [d \in Drivers |-> FALSE]
    /\ curr_frequency = [d \in Drivers |-> None]
    /\ gone = FALSE
    /\ i2cErr = [m \in Modes |-> "clear"]
    /\ config = FactoryBlock
    /\ attached = FactoryBus
    /\ spi_config = [i \in 1..16 |-> 0]
    /\ user_flash = [p \in FlashPages |-> ErasedPage]
    /\ \E devices \in DeviceLists :
          call = [op |-> "init", drv |-> 1, result |-> "ok", usb |-> <<>>,
                  guard0 |-> FALSE, open0 |-> {}, freq0 |-> None, bytes_written |-> 0,
                  arg |-> [NoArg EXCEPT !.scan.list = devices]]

SpecSelect == InitSelect /\ [][scan_for_device_select_step]_vars

\* ------------------------------------------------------------- properties

Open == {d \in Drivers : entered[d]}

\* C1: at most one session is open on the context at any time; an __enter__
\* started while a session is open raises the usage error, issues no USB
\* call, and leaves that session open and the guard set.
C1_OneSessionAtATime ==
    /\ Cardinality(Open) <= 1
    /\ (call.op = "enter" /\ call.open0 /= {}) =>
          /\ call.result = "AlreadyOpen"
          /\ call.usb = <<>>
          /\ Open = call.open0
          /\ has_opened_driver

C1_Witness ==
    /\ call.op = "enter"
    /\ call.open0 /= {}
    /\ call.drv \notin call.open0
    /\ call.result = "AlreadyOpen"

\* C2: a session exit releases the interface claimed at entry exactly once,
\* then closes the handle exactly once, and clears the guard.
C2_ExitReleasesThenCloses ==
    call.op = "exit" =>
      /\ Count(call.usb, "releaseInterface") = 1
      /\ Count(call.usb, "close") = 1
      /\ First(call.usb, "releaseInterface") < First(call.usb, "close")
      /\ ~claimed[call.drv]
      /\ ~dev[call.drv]
      /\ ~has_opened_driver

\* C3: when the signature query of __enter__ returns something other than
\* "CYUS", the entry fails, the interface has been released and the handle
\* closed before the error is raised, and the guard is not set.
C3_BadSignatureRollsBack ==
    (call.op = "enter" /\ Count(call.usb, "get_signature") = 1
       /\ call.arg.in /= "CYUS") =>
      /\ call.result = "BadSignature"
      /\ Count(call.usb, "releaseInterface") = 1
      /\ Count(call.usb, "close") = 1
      /\ ~claimed[call.drv]
      /\ ~dev[call.drv]
      /\ ~has_opened_driver

\* C4: an __enter__ that fails after the USB handle was opened leaves no
\* interface claimed, no handle open and the guard clear.
C4_FailedEnterReleasesAll ==
    (call.op = "enter" /\ call.result \notin {"ok", "AlreadyOpen"}
       /\ Len(call.usb) > 1) =>
      /\ ~claimed[call.drv]
      /\ ~dev[call.drv]
      /\ ~has_opened_driver

I2cTransfers == {"i2c_read", "i2c_write"}
SpiTransfers == {"spi_write", "spi_read", "spi_transfer"}
UsageFaults == {"UsageError", "ValueError"}

ProtocolFaults == {"I2CArbLostError", "I2CNACKError", "I2CBusError", "ProtocolFault"}

ModeOf(op) == IF op = "i2c_read" THEN MODE_READ ELSE MODE_WRITE
ResetOf(op) == IF op = "i2c_read" THEN "i2c_reset_R" ELSE "i2c_reset_W"

\* C6: when i2c_read or i2c_write raises a protocol fault, the reset of its
\* sub-module was issued exactly once, after the bulk and notification
\* transfers, as the last USB call; the error state of the sub-module is
\* clear, and an immediately following transfer of the same kind is not
\* rejected as busy.
C6_ResetBeforeProtocolFault ==
    /\ []((call.op \in I2cTransfers /\ call.result \in ProtocolFaults) =>
            /\ Count(call.usb, ResetOf(call.op)) = 1
            /\ call.usb[Len(call.usb)] = ResetOf(call.op)
            /\ i2cErr[ModeOf(call.op)] = "clear")
    /\ [][(call.op \in I2cTransfers /\ call.result \in ProtocolFaults
            /\ call'.op = call.op) => call'.result /= "Busy"]_vars

C6_Witness ==
    /\ call.op = "i2c_read"
    /\ call.result = "I2CNACKError"
    /\ Count(call.usb, "i2c_reset_R") = 1

\* C7: the I2CNACKError of i2c_write carries the little-endian 16-bit count
\* of status bytes 1-2 as bytes_written; that of i2c_read carries 0.
C7_NackBytesWritten ==
    call.result = "I2CNACKError" =>
      /\ call.op = "i2c_write" => call.bytes_written = call.arg.st[2] + 256 * call.arg.st[3]
      /\ call.op = "i2c_read" => call.bytes_written = 0

C7_Witness ==
    /\ call.op = "i2c_write"
    /\ call.result = "I2CNACKError"
    /\ call.arg.st[2] = 3
    /\ call.arg.st[3] = 0
    /\ call.bytes_written = 3

\* the calls whose bulk phase and notification read both completed
Notified == call.op \in I2cTransfers /\ call.arg.in = "ok"
            /\ Count(call.usb, "interruptRead") = 1

\* C8: a completion status with the error bit set raises the error chosen
\* by priority arbitration-lost, NAK, bus error, generic fault; a completion
\* status with the error bit clear lets the call succeed.
C8_DecodePriority ==
    Notified =>
      LET st0 == call.arg.st[1] IN
      IF st0 % 2 = 1
      THEN /\ (st0 \div 2) % 2 = 1 => call.result = "I2CArbLostError"
           /\ ((st0 \div 2) % 2 = 0 /\ (st0 \div 4) % 2 = 1) =>
                 call.result = "I2CNACKError"
           /\ ((st0 \div 2) % 4 = 0 /\ (st0 \div 8) % 2 = 1) =>
                 call.result = "I2CBusError"
           /\ (st0 \div 2) % 8 = 0 => call.result = "ProtocolFault"
      ELSE call.result = "ok"

C8_Witness ==
    /\ Notified
    /\ call.arg.st[1] = 15
    /\ call.result = "I2CArbLostError"

\* C9: when both transfers of spi_transfer complete and the received length
\* differs from the requested length, spi_transfer raises a protocol fault
\* and the SPI reset is issued exactly once, as the last USB call.
C9_ShortTransferResetsOnce ==
    (call.op = "spi_transfer" /\ call.arg.spi.tx = "completed"
       /\ call.arg.spi.rx = "completed" /\ call.arg.spi.actual /= call.arg.size) =>
      /\ call.result = "SpiShortRead"
      /\ Count(call.usb, "spi_reset") = 1
      /\ call.usb[Len(call.usb)] = "spi_reset"

\* C10: every exception an SPI transfer raises after its setup control
\* transfer was issued is preceded by an SPI reset.
C10_SpiFaultResets ==
    (call.op \in SpiTransfers /\ call.usb /= <<>>
       /\ call.result \in {"USBErrorPipe", "USBErrorTimeout", "SpiShortRead",
                            "SpiTxFailed", "SpiRxFailed", "SpiPollTimeout"}) =>
      Count(call.usb, "spi_reset") >= 1

\* C11: spi_transfer submits the outbound and the inbound bulk transfer
\* before it waits on either, and returns data only if both finished with
\* status completed and the received length equals the transmitted length.
C11_BothSubmittedBeforeWait ==
    (call.op = "spi_transfer" /\ call.usb /= <<>>) =>
      /\ First(call.usb, "submit_tx") > 0
      /\ First(call.usb, "submit_rx") > 0
      /\ First(call.usb, "submit_tx") < First(call.usb, "handleEvents")
      /\ First(call.usb, "submit_rx") < First(call.usb, "handleEvents")
      /\ call.result = "ok" =>
            /\ call.arg.spi.tx = "completed"
            /\ call.arg.spi.rx = "completed"
            /\ call.arg.spi.actual = call.arg.size

C11_Witness ==
    /\ call.op = "spi_transfer"
    /\ call.result = "ok"
    /\ call.arg.size = MaxLen
    /\ call.usb[2] = "submit_tx"
    /\ call.usb[3] = "submit_rx"
    /\ call.usb[4] = "handleEvents"

\* the mode-change calls whose change_type reported success
ChangeDone == call.op = "change_type" /\ call.result = "ok"

\* C12: after change_type(new_type) succeeds, the block written decodes to
\* device type new_type, its PID is odd exactly when new_type is UART_CDC,
\* and its PID differs from the PID read at most in bit 0.
C12_TypeAndPidParity ==
    ChangeDone =>
      /\ call.arg.mfg.wrote
      /\ config = call.arg.mfg.block
      /\ device_type(call.arg.mfg.block) = call.arg.mfg.new_type
      /\ (call.arg.mfg.block.pid % 2 = 1) <=> (call.arg.mfg.new_type = CyType_UART_CDC)
      /\ call.arg.mfg.block.pid \div 2 = call.arg.mfg.read.pid \div 2

C12_Witness ==
    /\ ChangeDone
    /\ device_type(call.arg.mfg.read) = CyType_SPI
    /\ call.arg.mfg.read.pid = DEFAULT_PID
    /\ call.arg.mfg.new_type = CyType_UART_CDC
    /\ call.arg.mfg.block.pid = DEFAULT_PID + 1

\* C13 as stated: change_type writes one fixed pattern into the settings
\* region when the new type is SPI or I2C, and a different one when it is
\* UART_CDC.
C13_SettingsSpiI2cVersusCdc ==
    (call.op = "change_type" /\ call.arg.mfg.wrote) =>
      /\ call.arg.mfg.new_type \in {CyType_SPI, CyType_I2C} =>
            call.arg.mfg.block.settings = settings_SPI
      /\ call.arg.mfg.new_type = CyType_UART_CDC =>
            call.arg.mfg.block.settings = settings_other
      /\ settings_SPI /= settings_other

\* C13 amended: change_type writes the first fixed pattern into the settings
\* region only when the new type is SPI, and the second, different pattern
\* for every other type, I2C and UART_CDC included.
C13_SettingsSpiVersusOthers ==
    (call.op = "change_type" /\ call.arg.mfg.wrote) =>
      /\ call.arg.mfg.new_type = CyType_SPI =>
            call.arg.mfg.block.settings = settings_SPI
      /\ call.arg.mfg.new_type /= CyType_SPI =>
            call.arg.mfg.block.settings = settings_other
      /\ settings_SPI /= settings_other
      /\ Len(settings_SPI) = 9
      /\ Len(settings_other) = 9

C13_Witness ==
    /\ ChangeDone
    /\ call.arg.mfg.new_type = CyType_I2C
    /\ call.arg.mfg.read.settings = settings_SPI
    /\ call.arg.mfg.block.settings = settings_other

\* C16: when a step of change_type after a successful connect fails, one
\* disconnect is issued after the failing step, as the last USB call before
\* the error propagates, and no second one; when connect itself fails,
\* neither a disconnect nor a write is issued.
C16_DisconnectOnFailure ==
    (call.op = "change_type" /\ call.result /= "ok") =>
      IF call.arg.mfg.fault = "connect"
      THEN /\ Count(call.usb, "mfg_disconnect") = 0
           /\ Count(call.usb, "write_config") = 0
      ELSE /\ call.usb[Len(call.usb)] = "mfg_disconnect"
           /\ Count(call.usb, "mfg_disconnect") =
                IF call.arg.mfg.fault = "disconnect" THEN 2 ELSE 1

C16_Witness ==
    /\ call.op = "change_type"
    /\ call.arg.mfg.fault = "write_config"
    /\ call.result = "USBError"
    /\ call.usb = <<"mfg_connect", "read_config", "write_config", "mfg_disconnect">>

\* the calls that can change the device type
TypeChangers == {"change_type", "open_device", "cli_change_type"}

\* C14: a request to change the device type to MFG is rejected before any
\* configuration block is written, on every path that can change the type,
\* so the stored block never names MFG as the device type.
C14_MfgNeverPersisted ==
    /\ device_type(config) /= CyType_MFG
    /\ (call.op \in TypeChangers /\ call.arg.mfg.new_type = CyType_MFG) =>
         /\ call.result /= "ok"
         /\ ~call.arg.mfg.wrote
         /\ Count(call.usb, "write_config") = 0

\* the USB calls of a mode change, in the order the device is to receive them
ModeChangeOrder == <<"mfg_connect", "read_config", "write_config", "mfg_disconnect">>

\* C15: in a mode-change run the device receives connect, read-configuration,
\* write-configuration, disconnect, reset in this order: the configuration is
\* written only after connect succeeded and the block was read, and open_device
\* and the change-type command reset only after a change_type that succeeded,
\* after its disconnect.
C15_ModeChangeOrder ==
    /\ [](call.op \in TypeChangers =>
            /\ Count(call.usb, "write_config") > 0 =>
                 /\ Count(call.usb, "mfg_connect") = 1
                 /\ Count(call.usb, "read_config") = 1
                 /\ First(call.usb, "mfg_connect") < First(call.usb, "read_config")
                 /\ First(call.usb, "read_config") < First(call.usb, "write_config")
            /\ Count(call.usb, "mfg_disconnect") > 0 =>
                 /\ First(call.usb, "mfg_connect") > 0
                 /\ First(call.usb, "mfg_connect") < First(call.usb, "mfg_disconnect")
            /\ (call.op = "change_type" /\ call.result = "ok") =>
                 call.usb = ModeChangeOrder
            /\ Count(call.usb, "device_reset") > 0 =>
                 /\ call.arg.mfg.fault = "none"
                 /\ call.arg.mfg.wrote
                 /\ First(call.usb, "write_config") < First(call.usb, "mfg_disconnect")
                 /\ First(call.usb, "mfg_disconnect") < First(call.usb, "device_reset")
                 /\ Count(call.usb, "device_reset") = 1)
    /\ [][(ChangeDone /\ call'.op = "reset_device") =>
            /\ call.usb \o call'.usb = ModeChangeOrder \o <<"device_reset">>
            /\ call'.arg.mfg.fault = "none"]_vars

C15_Witness ==
    /\ call.op = "reset_device"
    /\ gone
    /\ call.arg.mfg.wrote
    /\ call.arg.mfg.fault = "none"
    /\ config = call.arg.mfg.block
    /\ device_type(config) = CyType_SPI
    /\ device_type(call.arg.mfg.read) = CyType_I2C

C19_IncompleteDeviceSkipped ==
    /\ call.op = "list_devices" =>
         \A i \in DOMAIN call.arg.scan.list :
            call.arg.scan.list[i].scb \/ call.arg.scan.list[i].cdc
    /\ (call.op = "list_devices"
          /\ \A i \in DOMAIN attached :
               attached[i] \in {CdcOnlyDevice, MfgOnlyDevice, HidDevice}) =>
         /\ call.result = "ok"
         /\ call.arg.scan.list = <<>>

\* C20: a device whose vendor-class interface has the three endpoints of the
\* fixed pattern and subclass I2C is accepted with that interface as its SCB
\* interface and current type I2C; a device with a CDC interface of subclass 2
\* is accepted with current type UART_CDC.
C20_TypeFromInterface ==
    /\ (call.op = "list_devices" /\ attached = <<I2cBridge>>) =>
         /\ call.result = "ok"
         /\ Len(call.arg.scan.list) = 1
         /\ call.arg.scan.list[1].scb
         /\ call.arg.scan.list[1].curr_cytype = CyType_I2C
    /\ (call.op = "list_devices" /\ attached = <<CdcBridge>>) =>
         /\ call.result = "ok"
         /\ Len(call.arg.scan.list) = 1
         /\ call.arg.scan.list[1].cdc
         /\ call.arg.scan.list[1].curr_cytype = CyType_UART_CDC

\* a product id with bit 0 toggled
Toggled(pid) == IF pid % 2 = 0 THEN pid + 1 ELSE pid - 1

\* the (vid, pid) test as the documentation of list_devices states it
InFilter(d, f) ==
    f.all \/ <<d.vid, d.pid>> \in f.set \/ <<d.vid, Toggled(d.pid)>> \in f.set

\* C21: with a (vid, pid) filter set, list_devices goes on with a device if
\* and only if its vendor id with its product id, as is or with bit 0
\* toggled, is in the set; with the filter None no device is excluded by id.
\* This holds of every device the loop comes to, and the loop comes to every
\* device of the bus unless a round raises.
C21_FilterByVidPid ==
    call.op = "list_devices" =>
        /\ \A i \in DOMAIN call.arg.scan.considered :
              call.arg.scan.considered[i] <=> InFilter(attached[i], call.arg.scan.filter)
        /\ call.arg.scan.exc = "none" =>
              Len(call.arg.scan.considered) = Len(attached)

\* a filtered scan that went on with a device whose product id is in the set
\* only with bit 0 toggled, and excluded another device
C21_Witness ==
    /\ call.op = "list_devices"
    /\ ~call.arg.scan.filter.all
    /\ \E i, j \in DOMAIN call.arg.scan.considered :
          /\ call.arg.scan.considered[i]
          /\ <<attached[i].vid, attached[i].pid>> \notin call.arg.scan.filter.set
          /\ ~call.arg.scan.considered[j]

\* C22: scan_for_device returns a device only if that device is in the list,
\* could be opened during the scan and, when a serial number is requested, has
\* that serial number; with an empty list, with a list of one device whose
\* serial number differs from the requested one, or with several devices and
\* no serial number given, it raises an error.
C22_ScanSelectsByOpenAndSerial ==
    call.op = "scan_for_device" =>
        LET s == call.arg.scan IN
        /\ s.exc = "none" =>
              /\ \E i \in DOMAIN s.list : s.list[i] = s.device
              /\ ~s.device.open_failed
              /\ s.serial /= "" => s.device.serial_number = s.serial
        /\ Len(s.list) = 0 => s.exc /= "none"
        /\ (Len(s.list) = 1 /\ s.serial /= "" /\ s.list[1].serial_number /= s.serial)
              => s.exc /= "none"
        /\ (Len(s.list) > 1 /\ s.serial = "") => s.exc /= "none"

\* a scan that returned the second of two devices, the one with the requested
\* serial number, where the first could not be opened
C22_Witness ==
    /\ call.op = "scan_for_device"
    /\ call.arg.scan.exc = "none"
    /\ Len(call.arg.scan.list) = 2
    /\ call.arg.scan.list[1].open_failed
    /\ call.arg.scan.device = call.arg.scan.list[2]
    /\ call.arg.scan.serial = call.arg.scan.device.serial_number

\* C23: a configuration that set_spi_configuration accepted is what a
\* read_spi_configuration issued next returns, the named mode included.
C23_SpiConfigRoundTrip ==
    [][(/\ call.op = "set_spi_configuration"
        /\ call.result = "ok"
        /\ call'.op = "read_spi_configuration")
       => (call'.result = "ok" /\ call'.arg.cfg = call.arg.cfg)]_vars

\* a read that returned a TI-mode configuration at the highest frequency and
\* word size with the three flags cleared, which only a set can have stored
C23_Witness ==
    /\ call.op = "read_spi_configuration"
    /\ call.result = "ok"
    /\ call.arg.cfg = [frequency |-> SPI_MAX_MASTER_FREQUENCY, word_size |-> MAX_WORD_SIZE,
                       mode |-> "TI", msbit_first |-> FALSE, continuous_ssel |-> FALSE,
                       ti_select_precede |-> FALSE]

\* the pages a call on [addr, addr + len) names
FlashRange(addr, len) ==
    {p \in FlashPages : addr <= p * USER_FLASH_PAGE_SIZE
                         /\ p * USER_FLASH_PAGE_SIZE < addr + len}

\* arguments the documentation of the two calls allows
FlashArgsValid(addr, len) ==
    /\ addr % USER_FLASH_PAGE_SIZE = 0
    /\ len > 0
    /\ len % USER_FLASH_PAGE_SIZE = 0
    /\ addr >= 0
    /\ addr + len <= USER_FLASH_SIZE

\* C24: after program_user_flash(addr, data) has succeeded on valid arguments
\* the flash holds data on [addr, addr + len(data)) and what it held before
\* on every other page, and a read_user_flash(addr, len(data)) issued next
\* returns exactly data.
C24_FlashRoundTrip ==
    /\ [][(/\ call'.op = "program_user_flash"
            /\ call'.result = "ok"
            /\ FlashArgsValid(call'.arg.addr, call'.arg.size))
           => /\ \A p \in FlashPages \ FlashRange(call'.arg.addr, call'.arg.size) :
                    user_flash'[p] = user_flash[p]
              /\ \A i \in DOMAIN call'.arg.data :
                    user_flash'[flash_page(call'.arg.addr) + i - 1] = call'.arg.data[i]]_vars
    /\ [][(/\ call.op = "program_user_flash"
            /\ call.result = "ok"
            /\ call'.op = "read_user_flash"
            /\ call'.arg.addr = call.arg.addr
            /\ call'.arg.size = call.arg.size
            /\ call'.result = "ok")
           => call'.arg.data = call.arg.data]_vars

\* a read of pages 1 and 2 that returned two different pages, while page 0
\* holds what an earlier program operation wrote
C24_Witness ==
    /\ call.op = "read_user_flash"
    /\ call.result = "ok"
    /\ call.arg.addr = USER_FLASH_PAGE_SIZE
    /\ call.arg.data = <<1, 2>>
    /\ user_flash[0] = 2

\* C25: program_user_flash and read_user_flash reject an address that is not
\* a multiple of 128, a length that is zero or not a multiple of 128, and a
\* range that leaves [0, 512), before any control transfer and with the flash
\* left as it was.
C25_FlashArgsRejected ==
    [][(/\ call'.op \in {"program_user_flash", "read_user_flash"}
        /\ ~FlashArgsValid(call'.arg.addr, call'.arg.size))
       => /\ call'.result = "ValueError"
          /\ call'.usb = <<>>
          /\ user_flash' = user_flash]_vars

\* a program call on the last page with two pages of data, rejected
C25_Witness ==
    /\ call.op = "program_user_flash"
    /\ call.arg.addr = 384
    /\ call.arg.size = 256
    /\ call.result = "ValueError"
    /\ call.usb = <<>>

\* C26: with io_timeout = 0, spi_write and spi_transfer never raise a timeout
\* error while the device still answers busy to the status poll or while a
\* bulk transfer is still pending: they wait without limit.
C26_ZeroTimeoutWaits ==
    (call.op \in {"spi_write", "spi_transfer"} /\ call.usb /= <<>>
       /\ call.arg.io_timeout = 0) =>
      /\ call.result /= "SpiPollTimeout"
      /\ ~(/\ call.result = "USBErrorTimeout"
           /\ (call.arg.spi.tx = "pending" \/ call.arg.spi.rx = "pending"))

\* C30: spi_write and spi_transfer return successfully only after a status
\* poll issued after their bulk phase was answered idle; spi_read issues no
\* status poll.
C30_SuccessAfterIdlePoll ==
    /\ (call.op \in {"spi_write", "spi_transfer"} /\ call.result = "ok") =>
          /\ call.usb[Len(call.usb)] = "spi_status"
          /\ Count(call.usb, "spi_status") = Len(call.arg.spi.polls) + 1
          /\ First(call.usb, "spi_status") >
                (IF call.op = "spi_write" THEN First(call.usb, "bulkWrite")
                 ELSE First(call.usb, "handleEvents"))
          /\ (IF call.op = "spi_write" THEN First(call.usb, "bulkWrite")
              ELSE First(call.usb, "handleEvents")) > 0
    /\ call.op = "spi_read" => Count(call.usb, "spi_status") = 0

C30_Witness ==
    /\ call.op = "spi_transfer"
    /\ call.result = "ok"
    /\ Len(call.arg.spi.polls) = MaxPolls
    /\ Count(call.usb, "spi_status") = MaxPolls + 1

\* C27: reset_device returns normally when its control write fails with a
\* pipe error or a no-device error, and any other transport error of the
\* control write propagates; leaving the session right after a reset_device
\* that returned completes without raising.
C27_ResetSwallowsPipeAndNoDevice ==
    /\ [](call.op = "reset_device" =>
            /\ call.arg.in \in {"pipe", "no_device"} => call.result = "ok"
            /\ call.arg.in = "timeout" => call.result = "USBErrorTimeout"
            /\ call.arg.in = "io" => call.result = "USBError")
    /\ [][(/\ call.op = "reset_device" /\ call.result = "ok"
           /\ call'.op = "exit" /\ call'.drv = call.drv)
          => call'.result = "ok"]_vars

C27_Witness ==
    /\ call.op = "reset_device"
    /\ call.arg.in = "no_device"
    /\ call.result = "ok"
    /\ gone

\* the I2C transfers that got as far as their bulk phase, and the names of
\* the USB calls of the sub-module each of them uses
I2cTransferred == call.op \in {"i2c_read", "i2c_write"} /\ Count(call.usb, "interruptRead") + Count(call.usb, "bulkRead") + Count(call.usb, "bulkWrite") > 0
I2cResetOfCall == IF call.op = "i2c_read" THEN "i2c_reset_R" ELSE "i2c_reset_W"
I2cStatusOfCall == IF call.op = "i2c_read" THEN "i2c_status_R" ELSE "i2c_status_W"
I2cHaltOfCall == IF call.op = "i2c_read" THEN "clearHalt_in" ELSE "clearHalt_out"

\* C28: when the bulk phase or the notification read of i2c_read or i2c_write
\* stalls, the driver clears the halt on the bulk endpoint and re-queries the
\* status of the sub-module; a status without the error bit raises the
\* inconsistent-state fault, a status with it resets the sub-module and
\* raises the error decoded from it (ArbLost, NACK, BusError, generic).
C28_StallDecodes ==
    (I2cTransferred /\ call.arg.in = "pipe") =>
      /\ Count(call.usb, I2cHaltOfCall) = 1
      /\ Count(call.usb, I2cStatusOfCall) = 2
      /\ First(call.usb, I2cHaltOfCall) < Len(call.usb)
      /\ call.usb[First(call.usb, I2cHaltOfCall) + 1] = I2cStatusOfCall
      /\ IF HasBit(call.arg.st[1], ERROR_BIT)
         THEN /\ call.result = i2c_decode(call.arg.st[1])
              /\ call.usb[Len(call.usb)] = I2cResetOfCall
         ELSE call.result = "Inconsistent"

\* C29: when the bulk transfer or the notification read of i2c_read or
\* i2c_write times out, the reset of that sub-module is issued before the
\* timeout error reaches the caller.
C29_TimeoutResets ==
    (I2cTransferred /\ call.arg.in = "timeout") =>
      /\ call.result = "USBErrorTimeout"
      /\ Count(call.usb, I2cResetOfCall) >= 1

\* the session entries of a bus driver whose base __enter__ completed
BusEntered(kind) ==
    /\ call.op = "enter"
    /\ KindOf(call.drv) = kind
    /\ call.result \in {"ok", "I2CNotReady"}

\* C31: entering an I2C session issues the reset of the read sub-module and
\* the reset of the write sub-module whenever the base open completed, after
\* it and before either status query, and succeeds only if both status
\* queries are issued and both sub-modules then show the error bit clear;
\* entering an SPI session ends with the SPI reset, so no transfer can be
\* requested before it.
C31_EntryResets ==
    /\ BusEntered("I2C") =>
          /\ Count(call.usb, "i2c_reset_R") = 1
          /\ Count(call.usb, "i2c_reset_W") = 1
          /\ First(call.usb, "get_firmware_version") < First(call.usb, "i2c_reset_R")
          /\ First(call.usb, "get_firmware_version") < First(call.usb, "i2c_reset_W")
          /\ First(call.usb, "i2c_reset_R") < First(call.usb, "i2c_status_R")
          /\ First(call.usb, "i2c_reset_W") < First(call.usb, "i2c_status_R")
          /\ Count(call.usb, "i2c_status_W") = 1 =>
                First(call.usb, "i2c_status_R") < First(call.usb, "i2c_status_W")
          /\ call.result = "ok" =>
                /\ Count(call.usb, "i2c_status_R") = 1
                /\ Count(call.usb, "i2c_status_W") = 1
                /\ i2cErr[MODE_READ] = "clear"
                /\ i2cErr[MODE_WRITE] = "clear"
          /\ (i2cErr[MODE_READ] /= "clear" \/ i2cErr[MODE_WRITE] /= "clear") =>
                (call.result = "I2CNotReady" /\ ~entered[call.drv])
    /\ BusEntered("SPI") =>
          /\ Count(call.usb, "spi_reset") = 1
          /\ call.usb[Len(call.usb)] = "spi_reset"
          /\ First(call.usb, "get_firmware_version") < First(call.usb, "spi_reset")

C31_Witness ==
    /\ BusEntered("I2C")
    /\ call.result = "I2CNotReady"
    /\ i2cErr[MODE_READ] = "clear"
    /\ i2cErr[MODE_WRITE] = "stuck"
    /\ Count(call.usb, "i2c_reset_W") = 1
    /\ Count(call.usb, "i2c_status_W") = 1

\* C32: i2c_read and i2c_write query the status of their sub-module before
\* the setup control transfer; when the sub-module already shows the error
\* bit they raise the 'overlapping operation' usage fault and issue neither
\* the setup transfer nor any bulk or interrupt transfer.
C32_BusyBeforeSetup ==
    [][(call' /= call /\ call'.op \in {"i2c_read", "i2c_write"} /\ call'.usb /= <<>>) =>
         LET m == IF call'.op = "i2c_read" THEN MODE_READ ELSE MODE_WRITE
             status == IF m = MODE_READ THEN "i2c_status_R" ELSE "i2c_status_W"
         IN /\ call'.usb[1] = status
            /\ IF i2cErr[m] /= "clear"
               THEN /\ call'.result = "Busy"
                    /\ call'.usb = <<status>>
               ELSE /\ call'.result /= "Busy"
                    /\ Len(call'.usb) >= 2
                    /\ call'.usb[2] = (IF m = MODE_READ THEN "i2c_read_setup"
                                       ELSE "i2c_write_setup")]_vars

C32_Witness ==
    /\ call.op = "i2c_write"
    /\ call.result = "Busy"
    /\ call.usb = <<"i2c_status_W">>
    /\ i2cErr[MODE_WRITE] = "set"

\* C33: when a session entry claims its interface, no interface of the
\* device (manufacturing, SCB, CDC control, CDC data) has a kernel driver
\* bound to it any more: each one that had was detached first.
C33_AllKernelDriversDetached ==
    (call.op = "enter" /\ Count(call.usb, "claimInterface") > 0) =>
      call.arg.kernel.left = {}

\* C34  No USB transfer is retried: a call of i2c_read, i2c_write, spi_write,
\* spi_read or spi_transfer issues its setup control transfer at most once and
\* each bulk transfer at most once, and one open_device call issues
\* change_type (its connect, its read and its write of the block) and
\* reset_device at most once, however many scans it makes while it waits.
TransferOnce ==
    {"i2c_read_setup", "i2c_write_setup", "spi_setup_W", "spi_setup_R", "spi_setup_RW",
     "bulkRead", "bulkWrite", "submit_tx", "submit_rx", "interruptRead"}

ChangeOnce == {"mfg_connect", "read_config", "write_config", "device_reset"}

C34_NothingRetried ==
    /\ call.op \in {"i2c_read", "i2c_write", "spi_write", "spi_read", "spi_transfer"} =>
          \A x \in TransferOnce : Count(call.usb, x) <= 1
    /\ call.op = "open_device" =>
          \A x \in ChangeOnce : Count(call.usb, x) <= 1

\* open_device changed the type and reset the device once, and scanned again
\* as often as the wait allows
C34_Witness ==
    /\ call.op = "open_device"
    /\ call.arg.scan.scans = 1 + MaxScans
    /\ Count(call.usb, "write_config") = 1
    /\ Count(call.usb, "device_reset") = 1

\* C35: with a positive io_timeout of t ms, spi_write and spi_transfer raise
\* the timeout of the completion wait at the first deadline test made more
\* than t ms after the transfer started, while the device still answers busy.
C35_DeadlineInMilliseconds ==
    (/\ call.op \in {"spi_write", "spi_transfer"}
     /\ call.arg.io_timeout > 0
     /\ Len(call.arg.spi.polls) >= 1
     /\ call.arg.spi.wait = 0
     /\ call.arg.spi.polls[1] > call.arg.io_timeout
     /\ Count(call.usb, "spi_status") > 0) =>
      /\ call.result = "SpiPollTimeout"
      /\ call.arg.spi.busy = 1

\* C36: a set_i2c_configuration or set_spi_configuration call rejected with
\* ValueError issues no USB call and leaves the cached frequency of its
\* session as it was when the call started.
C36_RejectedConfigurationChangesNothing ==
    (/\ call.op \in {"set_i2c_configuration", "set_spi_configuration"}
     /\ call.result = "ValueError") =>
      /\ call.usb = <<>>
      /\ curr_frequency[call.drv] = call.freq0

\* C37: every block that change_type writes (called directly, by open_device
\* or by the change-type command) has 512 bytes, starts with the magic CYUS,
\* has a supported major version and holds in its checksum field the wrapped
\* sum of its words from offset 12 on; a block read that fails the validation
\* of the constructor is followed by no write.
C37_WrittenBlocksAreValid ==
    call.op \in TypeChangers =>
      /\ call.arg.mfg.wrote =>
            /\ call.arg.mfg.block.size = CY_DEVICE_CONFIG_SIZE
            /\ call.arg.mfg.block.magic = CONFIG_BLOCK_EXPECTED_MAGIC
            /\ call.arg.mfg.block.major \in CONFIG_BLOCK_EXPECTED_MAJOR_VERSIONS
            /\ call.arg.mfg.block.checksum = calculate_checksum(call.arg.mfg.block)
            /\ config = call.arg.mfg.block
      /\ (Count(call.usb, "read_config") > 0
            /\ ConfigurationBlock_init(call.arg.mfg.read) /= "ok") =>
            /\ ~call.arg.mfg.wrote
            /\ Count(call.usb, "write_config") = 0
            /\ call.result /= "ok"

\* a block whose word sum passes 32 bits was read, changed and written with
\* the wrapped sum
C37_Witness ==
    /\ call.op = "change_type"
    /\ call.arg.mfg.wrote
    /\ call.arg.mfg.read.rest = <<Half - 1, Half - 1>>
    /\ call.arg.mfg.new_type = CyType_SPI
    /\ call.arg.mfg.block.checksum /= call.arg.mfg.read.checksum
    /\ call.arg.mfg.block.checksum[1] < call.arg.mfg.block.rest[1]

\* C38: the block change_type writes differs from the block it read in the
\* two device-type bytes, in bit 0 of the PID, in the 9 bytes of the settings
\* region and in the checksum field at most: length, magic, version, VID,
\* the other bits of the PID and all remaining bytes are as read.
C38_OnlyTypePidSettingsChecksum ==
    (call.op \in TypeChangers /\ call.arg.mfg.wrote) =>
      /\ [call.arg.mfg.block EXCEPT !.b1C = call.arg.mfg.read.b1C,
                                    !.b1D = call.arg.mfg.read.b1D,
                                    !.pid = call.arg.mfg.read.pid,
                                    !.settings = call.arg.mfg.read.settings,
                                    !.checksum = call.arg.mfg.read.checksum]
            = call.arg.mfg.read
      /\ call.arg.mfg.block.pid \div 2 = call.arg.mfg.read.pid \div 2
      /\ Len(call.arg.mfg.block.settings) = 9

\* a block in UART_CDC mode with an odd PID was changed to SPI: type bytes,
\* PID, settings and checksum differ, the VID does not
C38_Witness ==
    /\ call.op = "change_type"
    /\ call.arg.mfg.wrote
    /\ device_type(call.arg.mfg.read) = CyType_UART_CDC
    /\ call.arg.mfg.read.pid = DEFAULT_PID + 1
    /\ call.arg.mfg.read.settings = settings_other
    /\ call.arg.mfg.new_type = CyType_SPI
    /\ call.arg.mfg.block.pid = DEFAULT_PID
    /\ call.arg.mfg.block.settings = settings_SPI
    /\ call.arg.mfg.block.b1C /= call.arg.mfg.read.b1C
    /\ call.arg.mfg.block.checksum /= call.arg.mfg.read.checksum
    /\ call.arg.mfg.block.vid = DEFAULT_VID

\* C39: in one scan, what list_devices does with a device it comes to (skip
\* it, raise, or append the DiscoveredDevice built for it) is what it does
\* with that device when it is the only one on the bus, whatever devices the
\* scan examined before it.
ScanOf(n) == CyScbContext_list_devices(SubSeq(attached, 1, n), call.arg.scan.filter)

C40_NoTransferLeftSubmitted ==
    (call.op = "spi_transfer" /\ call.usb /= <<>>) =>
      \/ (call.arg.spi.tx /= "pending" /\ call.arg.spi.rx /= "pending")
      \/ Count(call.usb, "cancel") > 0

====
